---- MODULE Spec2Model ----
(***************************************************************************)
(* LIF-renderer: the desktop raycast path of HoloRenderer / RaycastPlane   *)
(* (asynchronous plane initialisation against frames, mode switches and    *)
(* dispose), the raycasting kernel of rayCastMonoLDI and the mono LDI      *)
(* layer compositor.                                                       *)
(*                                                                         *)
(* JavaScript runs each handler to completion between awaits, so one       *)
(* action is one macrotask: the synchronous part of a frame, one image     *)
(* load completing (with every promise continuation it releases), one      *)
(* setRenderMode or dispose call.                                          *)
(***************************************************************************)
EXTENDS Integers, Sequences, FiniteSets, TLC

\* ------------------------------------------------------------------ bounds
MaxPlanes == 2    \* RaycastPlane objects constructed in one run
MaxFrames == 3    \* onBeforeRender calls in one run
MaxLayers == 2    \* lifLayers.length of the projector in the renderer runs
Scale == 1000     \* fixed-point resolution: the float x is the integer x * Scale
TexSize == 8      \* width and height, in texels, of the source textures

\* -------------------------------------------------- shader arithmetic
\* GLSL highp floats are modelled as fixed-point numbers with Scale steps
\* per unit; products and quotients round toward zero.  The value of a
\* division by zero is not defined by the shader: the kernel's actions draw
\* it from DivZero.

Huge == 20 * Scale

DivZero == {-Huge, Huge}

\* integer quotient rounded toward zero
TDiv(n, d) ==
  IF d > 0 THEN (IF n >= 0 THEN n \div d ELSE -((-n) \div d))
  ELSE (IF n >= 0 THEN -(n \div (-d)) ELSE (-n) \div (-d))

\* a * b
Mul(a, b) == TDiv(a * b, Scale)

\* a / b, b # 0
Div(a, b) == TDiv(a * Scale, b)

\* the values a / b can take
Quot(a, b) == IF b = 0 THEN DivZero ELSE {Div(a, b)}

\* x /= 2.0
Half(x) == TDiv(x, 2)

\* abs(x)
Abs(x) == IF x < 0 THEN -x ELSE x

\* clamp(x, lo, hi) = min(max(x, lo), hi)
Clamp(x, lo, hi) ==
  LET m == IF x < lo THEN lo ELSE x IN IF m > hi THEN hi ELSE m

\* dot(a, b) for vec2
Dot2(a, b) == Mul(a[1], b[1]) + Mul(a[2], b[2])

\* mat3 * vec3, the matrix given by rows
MatVec(M, v) ==
  << Mul(M[1][1], v[1]) + Mul(M[1][2], v[2]) + Mul(M[1][3], v[3]),
     Mul(M[2][1], v[1]) + Mul(M[2][2], v[2]) + Mul(M[2][3], v[3]),
     Mul(M[3][1], v[1]) + Mul(M[3][2], v[2]) + Mul(M[3][3], v[3]) >>

\* mat3 * mat3
MatMul(A, B) ==
  [r \in 1..3 |-> [c \in 1..3 |->
     Mul(A[r][1], B[1][c]) + Mul(A[r][2], B[2][c]) + Mul(A[r][3], B[3][c])]]

\* determinant of a mat3
Det3(M) ==
    Mul(M[1][1], Mul(M[2][2], M[3][3]) - Mul(M[2][3], M[3][2]))
  - Mul(M[1][2], Mul(M[2][1], M[3][3]) - Mul(M[2][3], M[3][1]))
  + Mul(M[1][3], Mul(M[2][1], M[3][2]) - Mul(M[2][2], M[3][1]))

\* the 2x2 minor of M without row r and column c
Minor(M, r, c) ==
  LET rs == IF r = 1 THEN <<2, 3>> ELSE IF r = 2 THEN <<1, 3>> ELSE <<1, 2>>
      cs == IF c = 1 THEN <<2, 3>> ELSE IF c = 2 THEN <<1, 3>> ELSE <<1, 2>>
  IN Mul(M[rs[1]][cs[1]], M[rs[2]][cs[2]]) - Mul(M[rs[1]][cs[2]], M[rs[2]][cs[1]])

\* inverse(M) for a non-singular mat3: adjugate over determinant
Inverse3(M) ==
  [r \in 1..3 |-> [c \in 1..3 |->
     Div((IF (r + c) % 2 = 0 THEN 1 ELSE -1) * Minor(M, c, r), Det3(M))]]

\* matFromFocal(fxy)
matFromFocal(fxy) ==
  << <<fxy[1], 0, 0>>, <<0, fxy[2], 0>>, <<0, 0, Scale>> >>

\* matFromSkew(sk): mat3(1,0,0, 0,1,0, -sk.x,-sk.y,1) lists columns
matFromSkew(sk) ==
  << <<Scale, 0, -sk[1]>>, <<0, Scale, -sk[2]>>, <<0, 0, Scale>> >>

\* smoothstep(edge0, edge1, x), edge0 < edge1
smoothstep(e0, e1, x) ==
  LET t == Clamp(Div(x - e0, e1 - e0), 0, Scale)
  IN Mul(Mul(t, t), 3 * Scale - 2 * t)

\* taper(uv) with the feathering uniform f
taper(uv, f) ==
  Mul(Mul(Mul(smoothstep(0, f, uv[1]),
              Scale - smoothstep(Scale - f, Scale, uv[1])),
          smoothstep(0, f, uv[2])),
      Scale - smoothstep(Scale - f, Scale, uv[2]))


\* ------------------------------------------------------------ textures
\* A source layer is a depth pattern (red channel of the depth+mask
\* texture), a mask pattern (its alpha channel) and a colour image.

DepthPatterns == {"near", "far", "mid", "ramp", "step"}

MaskPatterns == {"valid", "invalid", "hole", "left"}

\* red channel of the depth+mask texel (tx, ty): normalised inverse depth
DepthTexel(pat, tx, ty) ==
  CASE pat = "near" -> Scale
    [] pat = "far"  -> 0
    [] pat = "mid"  -> Scale \div 2
    [] pat = "ramp" -> (tx * Scale) \div (TexSize - 1)
    [] pat = "step" -> IF tx < TexSize \div 2 THEN Scale ELSE 0

\* alpha channel of the depth+mask texel (tx, ty): the mask (createDepthMaskTexture)
MaskTexel(pat, tx, ty) ==
  CASE pat = "valid"   -> Scale
    [] pat = "invalid" -> 0
    [] pat = "hole"    -> IF tx = TexSize \div 2 /\ ty = TexSize \div 2 THEN 0 ELSE Scale
    [] pat = "left"    -> IF tx < TexSize \div 2 THEN 0 ELSE Scale

\* channel ch of the RGB texel (tx, ty) of colour image id; image 0 is the
\* black texel an unbound sampler (uImage[i] = null) reads
ColorTexel(id, ch, tx, ty) ==
  CASE id = 0 -> 0
    [] ch = 1 -> (tx * Scale) \div (TexSize - 1)
    [] ch = 2 -> (ty * Scale) \div (TexSize - 1)
    [] ch = 3 -> (id * Scale) \div 4

\* a + (b - a) * t
Lerp(a, b, t) == a + Mul(b - a, t)

\* the channels of a W x H image, as functions of the texel coordinates
DepthImage(pat, W, H) ==
  [tx \in 0..(W - 1), ty \in 0..(H - 1) |-> DepthTexel(pat, tx, ty)]

MaskImage(pat, W, H) ==
  [tx \in 0..(W - 1), ty \in 0..(H - 1) |-> MaskTexel(pat, tx, ty)]

ColorImage(id, ch, W, H) ==
  [tx \in 0..(W - 1), ty \in 0..(H - 1) |-> ColorTexel(id, ch, tx, ty)]

\* texture(tex, uv) for one channel: LinearFilter, ClampToEdgeWrapping
\* (createDepthMaskTexture, createRGBTexture), on the W x H image T
Texture(T, uv, W, H) ==
  LET X  == uv[1] * W - Scale \div 2
      Y  == uv[2] * H - Scale \div 2
      i0 == X \div Scale
      j0 == Y \div Scale
      fx == X - i0 * Scale
      fy == Y - j0 * Scale
      cx0 == Clamp(i0, 0, W - 1)
      cx1 == Clamp(i0 + 1, 0, W - 1)
      cy0 == Clamp(j0, 0, H - 1)
      cy1 == Clamp(j0 + 1, 0, H - 1)
  IN Lerp(Lerp(T[cx0, cy0], T[cx1, cy0], fx),
          Lerp(T[cx0, cy1], T[cx1, cy1], fx), fy)

\* readDisp(iChannel, uv, vMin, vMax, iRes)
readDisp(pat, uv, vMin, vMax, iRes) ==
  LET clampedUV ==
        << Clamp(uv[1], TDiv(2 * Scale, iRes[1]), Scale - TDiv(2 * Scale, iRes[1])),
           Clamp(uv[2], TDiv(2 * Scale, iRes[2]), Scale - TDiv(2 * Scale, iRes[2])) >>
  IN Mul(Texture(DepthImage(pat, iRes[1], iRes[2]), clampedUV,
                 iRes[1], iRes[2]),
         vMin - vMax) + vMax

\* readColor(iChannel, uv): the RGB sample at uv
readColor(id, uv, iRes) ==
  [ch \in 1..3 |->
     Texture(ColorImage(id, ch, iRes[1], iRes[2]), uv, iRes[1], iRes[2])]

\* texture(iChannelDisp, uv).a
maskAt(pat, uv, iRes) ==
  Texture(MaskImage(pat, iRes[1], iRes[2]), uv, iRes[1], iRes[2])

\* const float maskDilation = 1.5
maskDilation == (3 * Scale) \div 2

\* isMaskAround(xy, tex, iRes): some sample of the 3x3 neighbourhood at
\* maskDilation texels spacing has mask alpha below 0.5
isMaskAround(xy, pat, iRes) ==
  \E x \in {-1, 0, 1}, y \in {-1, 0, 1} :
    maskAt(pat, << xy[1] + TDiv(maskDilation * x, iRes[1]),
                   xy[2] + TDiv(maskDilation * y, iRes[2]) >>, iRes) < Scale \div 2

\* ------------------------------------------------------------- kernel
\* const int numsteps = 40
numsteps == 40

\* the locals of raycasting() once the loop is about to start
KStartOutcomes(in) ==
  LET invZ  == in.invZmin
      dinvZ == TDiv(in.invZmin - in.invZmax, numsteps)
      P     == MatMul(in.FSKR1, Inverse3(in.FSKR2))
      C     == MatVec(in.FSKR1, << in.C2[1] - in.C1[1], in.C2[2] - in.C1[2],
                                   in.C2[3] - in.C1[3] >>)
      Pzxy  == << P[3][1], P[3][2] >>
      Pzz   == P[3][3]
      \* Pxyxy * s2 + Pxyz
      h     == << Mul(P[1][1], in.s2[1]) + Mul(P[1][2], in.s2[2]) + P[1][3],
                  Mul(P[2][1], in.s2[1]) + Mul(P[2][2], in.s2[2]) + P[2][3] >>
      den1  == Dot2(Pzxy, in.s2) + Pzz
      w     == Scale - Mul(C[3], invZ)
  IN { [ i |-> 0, invZ |-> invZ, dinvZ |-> dinvZ, C |-> C, den1 |-> den1,
         s1 |-> << Mul(C[1], invZ) + a1, Mul(C[2], invZ) + a2 >>,
         ds1 |-> << Mul(C[1] - b1, dinvZ), Mul(C[2] - b2, dinvZ) >>,
         invZ2 |-> 0, disp |-> 0, refined |-> FALSE,
         div0 |-> (den1 = 0) ] :
       a1 \in Quot(Mul(w, h[1]), den1), a2 \in Quot(Mul(w, h[2]), den1),
       b1 \in Quot(Mul(C[3], h[1]), den1), b2 \in Quot(Mul(C[3], h[2]), den1) }

\* mutant of LoopCond: the loop also ends once the step has shrunk to nothing
LoopCond_EarlyExit(l) == l.i < numsteps /\ l.dinvZ # 0

\* for (int i = 0; i < numsteps; i++)
LoopCond(l) == l.i < numsteps

\* mutant of Overshoot: the test that the point is in front of the observer is missing
Overshoot_NoFrontTest(disp, invZ, invZ2) == disp > invZ

\* (disp > invZ) && (invZ2 > 0.0)
Overshoot(disp, invZ, invZ2) == disp > invZ /\ invZ2 > 0

\* one execution of the loop body and the i++ after it
KStepOutcomes(in, l) ==
  LET invZ == l.invZ - l.dinvZ
      s1   == << l.s1[1] - l.ds1[1], l.s1[2] - l.ds1[2] >>
      disp == readDisp(in.depth, << s1[1] + Scale \div 2, s1[2] + Scale \div 2 >>,
                       in.invZmin, in.invZmax, in.iRes)
      den2 == Scale - Mul(l.C[3], invZ)
  IN { IF Overshoot(disp, invZ, invZ2)
       THEN [l EXCEPT !.i = l.i + 1, !.disp = disp, !.invZ2 = invZ2,
                      !.invZ = invZ + l.dinvZ,
                      !.s1 = << s1[1] + l.ds1[1], s1[2] + l.ds1[2] >>,
                      !.dinvZ = Half(l.dinvZ),
                      !.ds1 = << Half(l.ds1[1]), Half(l.ds1[2]) >>,
                      !.refined = TRUE,
                      !.div0 = l.div0 \/ den2 = 0]
       ELSE [l EXCEPT !.i = l.i + 1, !.disp = disp, !.invZ2 = invZ2,
                      !.invZ = invZ, !.s1 = s1, !.refined = FALSE,
                      !.div0 = l.div0 \/ den2 = 0] :
       invZ2 \in Quot(Mul(invZ, l.den1), den2) }

\* mutant of Accepted: the test of the reconstructed inverse depth is missing
Accepted_NoDepthTest(l) ==
  Abs(l.s1[1]) < Scale \div 2 /\ Abs(l.s1[2]) < Scale \div 2

\* (abs(s1.x) < 0.5) && (abs(s1.y) < 0.5) && (invZ2 > 0.0)
Accepted(l) ==
  Abs(l.s1[1]) < Scale \div 2 /\ Abs(l.s1[2]) < Scale \div 2 /\ l.invZ2 > 0

\* mutant of Masked: the test reads the red (depth) channel instead of alpha
Masked_WrongChannel(in, uv) ==
  Texture(DepthImage(in.depth, in.iRes[1], in.iRes[2]), uv,
          in.iRes[1], in.iRes[2]) < Scale \div 2

\* the mask test of an accepted sample: texture(iChannelDisp, s1 + 0.5).a < 0.5
Masked(in, uv) == maskAt(in.mask, uv, in.iRes) < Scale \div 2

\* the return statements after the loop: vec4 result (rgb, a)
KFinish(in, l) ==
  LET uv == << l.s1[1] + Scale \div 2, l.s1[2] + Scale \div 2 >> IN
  IF Accepted(l)
  THEN IF Masked(in, uv)
       THEN [rgb |-> <<0, 0, 0>>, a |-> 0]
       ELSE [rgb |-> readColor(in.col, uv, in.iRes), a |-> taper(uv, in.feathering)]
  ELSE [rgb |-> << in.background[1], in.background[2], in.background[3] >>, a |-> 0]

VARIABLES
  \* ---- HoloRenderer / RaycastPlane (part_005, part_003)
  renderMode,     \* HoloRenderer.renderMode
  raycastPlane,   \* HoloRenderer.raycastPlane: a plane id, 0 is null
  planes,         \* the RaycastPlane objects constructed so far, by id
  lifLayers,      \* projector.lifLayers: per layer, which URLs are present
  frames,         \* onBeforeRender calls so far
  rendererDisposed, \* HoloRenderer.dispose() has run
  renderLog,      \* history: every renderer.render(plane, camera) issued
  faults,         \* history: exceptions thrown inside frame continuations
  \* ---- one invocation of raycasting() (rayCastMonoLDI, part_001)
  kpc,            \* position in raycasting(): idle / start / loop / done
  kin,            \* its arguments and the uniforms it reads
  kl,             \* its locals
  kout,           \* the vec4 it returns
  kbody,          \* history: executions of the loop body so far
  \* ---- one invocation of main() of rayCastMonoLDI: the layer blending
  cpc,            \* position in the blending: idle / layer1 / gate / background / done
  cin,            \* the uniforms and the pixel
  cres,           \* vec4 result
  cnext,          \* the layer the next gate guards (2, 3, 4)
  craw,           \* history: the raycasting() result of every layer visited, in order
  cvisited,       \* history: the layers raycast, in order
  \* ---- source-view pose upload and the head of main() (part_003, part_000)
  pcamera,        \* the camera's world pose
  pprojectors,    \* RaycastPlane.projectors: the projectors' poses
  pviewCount,     \* RaycastPlane.viewCount, and with it the fragment shader in use
  puniforms,      \* per view slot: uViewPosition*, uViewRotation*, sk1*, sl1*, roll1*
  pcpu,           \* history: posInCameraSpace / rotationInCameraSpace last computed per slot
  pshader,        \* history: C1, viewRotationMatrix and SKR1 of the last draw per slot
  \* ---- one layer of main() of rayCastStereoLDI (part_001)
  spc,            \* position: idle / reconcileL / reconcileR / blend / done
  sin,            \* the two raycasting() results and the three positions
  sL,             \* vec4 layer1L
  sR,             \* vec4 layer1R
  sout,           \* wR and the blended layer
  \* ---- single shader functions applied to one input
  fpc,            \* position: idle / ready / done
  fin,            \* the uniforms and arguments
  fout,           \* the value computed
  \* ---- one RaycastPlane under overlapping asynchronous calls (part_003)
  tplane,         \* its fields: projectors, viewCount, material, layerTextures, uniforms
  ttex,           \* every texture entry the plane has created, by id
  tlayer,         \* the projectors' layer records: layer.rgbTexture / depthTexture
  tcalls,         \* the asynchronous calls made so far and where each one stands
  tlog,           \* history: render calls, promise resolutions, mesh samples
  \* ---- the per-eye XR planes of HoloRenderer (part_005)
  xpc,            \* idle or run
  xstate,         \* HoloRenderer's XR fields and the planes created for the session
  xlog,           \* history: uses of per-eye planes
  \* ---- HoloProjector construction, renderer auto-injection, file load
  hpc,            \* idle or the scenario modelled
  hstate,         \* the objects' fields
  hlog            \* history

rvars == <<renderMode, raycastPlane, planes, lifLayers, frames,
           rendererDisposed, renderLog, faults>>

kvars == <<kpc, kin, kl, kout, kbody>>

cvars == <<cpc, cin, cres, cnext, craw, cvisited>>

pvars == <<pcamera, pprojectors, pviewCount, puniforms, pcpu, pshader>>

svars == <<spc, sin, sL, sR, sout>>

fvars == <<fpc, fin, fout>>

tvars == <<tplane, ttex, tlayer, tcalls, tlog>>

xvars == <<xpc, xstate, xlog>>

hvars == <<hpc, hstate, hlog>>

nvars == <<tvars, xvars, hvars>>

ovars == <<pvars, svars, fvars, nvars>>

vars == <<rvars, kvars, cvars, ovars>>

\* no pose upload is modelled
PoseIdle ==
  /\ pcamera = <<>>
  /\ pprojectors = <<>>
  /\ pviewCount = 0
  /\ puniforms = <<>>
  /\ pcpu = <<>>
  /\ pshader = <<>>

\* no RaycastPlane calls are modelled
PlaneIdle ==
  /\ tplane = <<>>
  /\ ttex = <<>>
  /\ tlayer = <<>>
  /\ tcalls = <<>>
  /\ tlog = <<>>

\* no XR session is modelled
XrIdle ==
  /\ xpc = "idle"
  /\ xstate = <<>>
  /\ xlog = <<>>

\* no projector construction, injection or file load is modelled
HostIdle ==
  /\ hpc = "idle"
  /\ hstate = <<>>
  /\ hlog = <<>>

\* no stereo blending is modelled
StereoIdle ==
  /\ spc = "idle"
  /\ sin = <<>>
  /\ sL = <<>>
  /\ sR = <<>>
  /\ sout = <<>>

\* no single function application is modelled
FnsIdle ==
  /\ fpc = "idle"
  /\ fin = <<>>
  /\ fout = <<>>

PlaneIds == 1..MaxPlanes

\* new RaycastPlane(1, 1): constructor state
NewPlane ==
  [ exists |-> TRUE,
    init |-> "none",          \* none / loading / ready
    projector |-> FALSE,      \* this.projector # null
    viewCount |-> 1,
    planeDistance |-> 1,
    loadLayer |-> 0,          \* index i of loadLayerTextures' loop (1-based)
    loadStage |-> "idle",     \* image the loop is awaiting: rgb / depth / mask
    layerTextures |-> {},     \* keys of this.layerTextures
    uNumLayers |-> 0,         \* uniforms.uNumLayers.value
    bound |-> {},             \* layers whose uImage/uDisparityMap are bound
    failed |-> {},            \* layers whose texture load threw and was caught
    disposed |-> FALSE,
    attached |-> FALSE,       \* child of the camera
    waiter |-> FALSE ]        \* a frame is suspended at await initializeFromProjector

NoPlane == [NewPlane EXCEPT !.exists = FALSE]

\* const maxLayers = Math.min(layers.length, 4)
maxLayersOf(layers) == IF Len(layers) < 4 THEN Len(layers) ELSE 4

\* if (!layer.rgbUrl || !layer.depthUrl) continue
HasUrls(layer) == layer.rgbUrl /\ layer.depthUrl

RECURSIVE NextLoadLayer(_, _)
\* the for loop of loadLayerTextures from index i on: the first layer it
\* awaits an image for, or maxLayers + 1 when the loop falls through
NextLoadLayer(layers, i) ==
  IF i > maxLayersOf(layers) THEN maxLayersOf(layers) + 1
  ELSE IF HasUrls(layers[i]) THEN i
  ELSE NextLoadLayer(layers, i + 1)

\* updatePlaneDistance(); updateStaticUniforms(): the tail of initializeFromProjector
FinishInit(pl) ==
  [pl EXCEPT !.init = "ready",
             !.loadStage = "idle",
             !.planeDistance = IF pl.projector THEN 1000000 ELSE pl.planeDistance,
             !.uNumLayers = IF pl.projector THEN maxLayersOf(lifLayers) ELSE pl.uNumLayers,
             !.bound = IF pl.projector /\ pl.viewCount = 1
                       THEN pl.bound \cup (pl.layerTextures \cap (1..maxLayersOf(lifLayers)))
                       ELSE pl.bound]

\* the loop of loadLayerTextures moving on to layer i (or ending)
AdvanceLoad(pl, i) ==
  LET j == NextLoadLayer(lifLayers, i) IN
  IF j > maxLayersOf(lifLayers)
  THEN FinishInit([pl EXCEPT !.loadLayer = j])
  ELSE [pl EXCEPT !.loadLayer = j, !.loadStage = "rgb"]

\* initializeFromProjector up to its first pending image load
StartInit(pl) ==
  AdvanceLoad([pl EXCEPT !.init = "loading", !.projector = TRUE, !.viewCount = 1], 1)

\* one renderer.render(this.raycastPlane, camera), as the log records it
RenderEvent(p, ps, how) ==
  [plane |-> p, init |-> ps[p].init, disposed |-> ps[p].disposed,
   uNumLayers |-> ps[p].uNumLayers, how |-> how]

\* the continuation of renderRaycastLayerStereo after
\* `await this.raycastPlane.initializeFromProjector(...)`: it re-reads
\* this.raycastPlane, sizes and attaches it, updates its uniforms and renders it
ResumeFrame(ps, p, rp) ==
  IF rp = 0
  THEN [planes |-> [ps EXCEPT ![p].waiter = FALSE],
        log |-> {},
        faults |-> {"TypeError: this.raycastPlane is null"}]
  ELSE LET qs == [ps EXCEPT ![p].waiter = FALSE, ![rp].attached = TRUE] IN
       [planes |-> qs,
        log |-> {RenderEvent(rp, qs, "resumed")},
        faults |-> {}]

\* what follows a change of plane p's loading state: when the load loop has
\* ended, the promise of initializeFromProjector resolves and the suspended
\* frame runs on in the same microtask checkpoint
Settle(ps, p) ==
  IF ps[p].init = "ready" /\ ps[p].waiter
  THEN ResumeFrame(ps, p, raycastPlane)
  ELSE [planes |-> ps, log |-> {}, faults |-> {}]

\* RaycastPlane.dispose()
DisposePlane(pl) ==
  [pl EXCEPT !.layerTextures = {}, !.disposed = TRUE]

\* ---------------------------------------------------------------- actions

\* onBeforeRender in raytracing mode, no XR session: renderRaycastLayerStereo
\* up to its first suspension (or to its end when it does not suspend)
RaycastFrame ==
  /\ ~rendererDisposed
  /\ frames < MaxFrames
  /\ renderMode = "raytracing"
  /\ Len(lifLayers) > 0
  /\ frames' = frames + 1
  /\ IF raycastPlane = 0
     THEN \E p \in PlaneIds :
            /\ ~planes[p].exists
            /\ \A q \in PlaneIds : q < p => planes[q].exists
            /\ LET ps == [planes EXCEPT ![p] = StartInit([NewPlane EXCEPT !.waiter = TRUE])]
                   r == IF ps[p].init = "ready" THEN ResumeFrame(ps, p, p)
                        ELSE [planes |-> ps, log |-> {}, faults |-> {}]
               IN /\ raycastPlane' = p
                  /\ planes' = r.planes
                  /\ renderLog' = renderLog \cup r.log
                  /\ faults' = faults \cup r.faults
     ELSE /\ renderLog' = renderLog \cup {RenderEvent(raycastPlane, planes, "sync")}
          /\ UNCHANGED <<raycastPlane, planes, faults>>
  /\ UNCHANGED <<renderMode, lifLayers, rendererDisposed>>
  /\ UNCHANGED <<kvars, cvars, ovars>>

\* onBeforeRender in mesh mode: renderMeshProjector touches no raycast state
MeshFrame ==
  /\ ~rendererDisposed
  /\ frames < MaxFrames
  /\ renderMode = "mesh"
  /\ frames' = frames + 1
  /\ UNCHANGED <<renderMode, raycastPlane, planes, lifLayers,
                 rendererDisposed, renderLog, faults>>
  /\ UNCHANGED <<kvars, cvars, ovars>>

\* img.onload / img.onerror of the image plane p's loadLayerTextures awaits
LoadDone(p, ok) ==
  /\ planes[p].exists
  /\ planes[p].init = "loading"
  /\ LET pl == planes[p]
         i == pl.loadLayer
         stored == [pl EXCEPT !.layerTextures = pl.layerTextures \cup {i}]
         next ==
           IF ~ok THEN AdvanceLoad([pl EXCEPT !.failed = pl.failed \cup {i}], i + 1)
           ELSE IF pl.loadStage = "rgb" THEN [pl EXCEPT !.loadStage = "depth"]
           ELSE IF pl.loadStage = "depth" /\ lifLayers[i].maskUrl
                THEN [pl EXCEPT !.loadStage = "mask"]
           ELSE AdvanceLoad(stored, i + 1)
         r == Settle([planes EXCEPT ![p] = next], p)
     IN /\ planes' = r.planes
        /\ renderLog' = renderLog \cup r.log
        /\ faults' = faults \cup r.faults
  /\ UNCHANGED <<renderMode, raycastPlane, lifLayers, frames, rendererDisposed>>
  /\ UNCHANGED <<kvars, cvars, ovars>>

\* HoloRenderer.setRenderMode(mode)
SetRenderMode(mode) ==
  /\ ~rendererDisposed
  /\ renderMode # mode
  /\ renderMode' = mode
  /\ IF mode = "mesh" /\ raycastPlane # 0
     THEN /\ planes' = [planes EXCEPT
                 ![raycastPlane] = DisposePlane([@ EXCEPT !.attached = FALSE])]
          /\ raycastPlane' = 0
     ELSE UNCHANGED <<planes, raycastPlane>>
  /\ UNCHANGED <<lifLayers, frames, rendererDisposed, renderLog, faults>>
  /\ UNCHANGED <<kvars, cvars, ovars>>

\* HoloRenderer.dispose()
Dispose ==
  /\ ~rendererDisposed
  /\ rendererDisposed' = TRUE
  /\ IF raycastPlane # 0
     THEN /\ planes' = [planes EXCEPT ![raycastPlane] = DisposePlane(@)]
          /\ raycastPlane' = 0
     ELSE UNCHANGED <<planes, raycastPlane>>
  /\ UNCHANGED <<renderMode, lifLayers, frames, renderLog, faults>>
  /\ UNCHANGED <<kvars, cvars, ovars>>

\* the layer records a loaded LIF view can carry
LayerKinds ==
  { [rgbUrl |-> TRUE,  depthUrl |-> TRUE,  maskUrl |-> TRUE],
    [rgbUrl |-> TRUE,  depthUrl |-> TRUE,  maskUrl |-> FALSE],
    [rgbUrl |-> FALSE, depthUrl |-> TRUE,  maskUrl |-> FALSE],
    [rgbUrl |-> TRUE,  depthUrl |-> FALSE, maskUrl |-> FALSE] }

LayerLists == UNION { [1..n -> LayerKinds] : n \in 1..MaxLayers }

\* no kernel invocation is modelled in the renderer runs
KernelIdle ==
  /\ kpc = "idle"
  /\ kin = <<>>
  /\ kl = <<>>
  /\ kout = <<>>
  /\ kbody = 0

\* no layer blending is modelled in the renderer and kernel runs
BlendIdle ==
  /\ cpc = "idle"
  /\ cin = <<>>
  /\ cres = <<>>
  /\ cnext = 0
  /\ craw = <<>>
  /\ cvisited = <<>>

Init ==
  /\ PlaneIdle
  /\ XrIdle
  /\ HostIdle
  /\ KernelIdle
  /\ BlendIdle
  /\ PoseIdle
  /\ StereoIdle
  /\ FnsIdle
  /\ renderMode \in {"mesh", "raytracing"}
  /\ raycastPlane = 0
  /\ planes = [p \in PlaneIds |-> NoPlane]
  /\ lifLayers \in LayerLists
  /\ frames = 0
  /\ rendererDisposed = FALSE
  /\ renderLog = {}
  /\ faults = {}

Next ==
  \/ RaycastFrame
  \/ MeshFrame
  \/ \E p \in PlaneIds, ok \in BOOLEAN : LoadDone(p, ok)
  \/ \E mode \in {"mesh", "raytracing"} : SetRenderMode(mode)
  \/ Dispose

Spec == Init /\ [][Next]_vars

\* ------------------------------------------------- the kernel, stepwise

Identity3 == matFromFocal(<<Scale, Scale>>)

\* a rotation about the Y axis with cosine 0.6 and sine 0.8
RotY ==
  << << (3 * Scale) \div 5, 0, (4 * Scale) \div 5 >>,
     << 0, Scale, 0 >>,
     << -((4 * Scale) \div 5), 0, (3 * Scale) \div 5 >> >>

\* s2 = v_texcoord - 0.5 of the pixels looked at
ScreenPoints ==
  { <<x, y>> : x \in { -(Scale \div 2), -((9 * Scale) \div 20), 0, (3 * Scale) \div 8 },
               y \in { 0, (9 * Scale) \div 20 } }

\* FSKR1 = matFromFocal(f1 / iRes) * SKR1 of the source views looked at
SourceTransforms ==
  { Identity3, MatMul(Identity3, matFromSkew(<<Scale \div 10, 0>>)), MatMul(Identity3, RotY) }

\* FSKR2 = matFromFocal(f2 / oRes) * matFromSkew(sk2) of the observers looked at
ObserverTransforms ==
  { Identity3, matFromFocal(<<Scale \div 2, Scale \div 2>>) }

\* uViewPosition values looked at (uFacePosition is always the origin)
SourcePositions ==
  { <<0, 0, 0>>, <<Scale \div 5, 0, 0>>, <<0, 0, -Scale>> }

\* (invZmin, invZmax) pairs looked at, the zero range among them
DepthRanges ==
  { <<Scale, Scale \div 2>>, <<Scale, Scale>>, <<2 * Scale, 0>> }

\* background uniform values looked at: the default (transparent) and an opaque colour
Backgrounds ==
  { <<0, 0, 0, 0>>, <<Scale \div 5, (2 * Scale) \div 5, (3 * Scale) \div 5, Scale>> }

\* feathering: { value: 0.1 }
DefaultFeathering == Scale \div 10

KernelInputs ==
  [ s2 : ScreenPoints, FSKR2 : ObserverTransforms, C2 : {<<0, 0, 0>>},
    FSKR1 : SourceTransforms, C1 : SourcePositions,
    depth : DepthPatterns \ {"mid"}, mask : MaskPatterns, col : {1},
    invZmin : {r[1] : r \in DepthRanges}, invZmax : {r[2] : r \in DepthRanges},
    iRes : {<<TexSize, TexSize>>},
    feathering : {DefaultFeathering},
    background : {<<Scale \div 5, (2 * Scale) \div 5, (3 * Scale) \div 5, Scale>>} ]

\* no renderer activity is modelled in the kernel runs
RendererIdle ==
  /\ renderMode = "raytracing"
  /\ raycastPlane = 0
  /\ planes = [p \in PlaneIds |-> NoPlane]
  /\ lifLayers = <<>>
  /\ frames = 0
  /\ rendererDisposed = FALSE
  /\ renderLog = {}
  /\ faults = {}

\* entry of raycasting() up to the loop
KStart ==
  /\ kpc = "start"
  /\ \E l \in KStartOutcomes(kin) : kl' = l
  /\ kpc' = "loop"
  /\ UNCHANGED <<kin, kout, kbody>>
  /\ UNCHANGED <<rvars, cvars, ovars>>

\* one iteration of the search loop
KStep ==
  /\ kpc = "loop"
  /\ LoopCond(kl)
  /\ \E l \in KStepOutcomes(kin, kl) : kl' = l
  /\ kbody' = kbody + 1
  /\ UNCHANGED <<kpc, kin, kout>>
  /\ UNCHANGED <<rvars, cvars, ovars>>

\* loop exit and the return statements
KReturn ==
  /\ kpc = "loop"
  /\ ~LoopCond(kl)
  /\ kout' = KFinish(kin, kl)
  /\ kpc' = "done"
  /\ UNCHANGED <<kin, kl, kbody>>
  /\ UNCHANGED <<rvars, cvars, ovars>>

InitKernel ==
  /\ PlaneIdle
  /\ XrIdle
  /\ HostIdle
  /\ RendererIdle
  /\ BlendIdle
  /\ PoseIdle
  /\ StereoIdle
  /\ FnsIdle
  /\ kpc = "start"
  /\ kin \in { in \in KernelInputs :
                 <<in.invZmin, in.invZmax>> \in DepthRanges }
  /\ kl = <<>>
  /\ kout = <<>>
  /\ kbody = 0

NextKernel == KStart \/ KStep \/ KReturn

SpecKernel == InitKernel /\ [][NextKernel]_vars

\* ------------------------------------------- mono LDI layer blending

RECURSIVE LoopAll(_, _)
\* the locals the search loop can end with, from the locals in L
LoopAll(in, L) ==
  IF \E l \in L : LoopCond(l)
  THEN LoopAll(in, UNION { IF LoopCond(l) THEN KStepOutcomes(in, l) ELSE {l} : l \in L })
  ELSE L

\* the values raycasting() can return on the arguments in
Raycasts(in) == { KFinish(in, l) : l \in LoopAll(in, KStartOutcomes(in)) }

\* the arguments main() passes to raycasting() for layer k (1-based):
\* FSKR1 = matFromFocal(f1 / iRes) * SKR1 with the layer's own f1 and iRes
LayerInput(u, k) ==
  [ s2 |-> u.s2, FSKR2 |-> u.FSKR2, C2 |-> u.C2,
    FSKR1 |-> MatMul(matFromFocal(<< TDiv(u.layers[k].f1 * Scale, u.layers[k].iRes[1]),
                                     TDiv(u.layers[k].f1 * Scale, u.layers[k].iRes[2]) >>),
                     u.SKR1),
    C1 |-> u.C1,
    depth |-> u.layers[k].depth, mask |-> u.layers[k].mask, col |-> u.layers[k].col,
    invZmin |-> u.layers[k].invZmin, invZmax |-> u.layers[k].invZmax,
    iRes |-> u.layers[k].iRes,
    feathering |-> u.feathering, background |-> u.background ]

\* result.rgb *= result.a
Premultiply(r) ==
  [rgb |-> [ch \in 1..3 |-> Mul(r.rgb[ch], r.a)], a |-> r.a]

\* mutant of Over: the layer behind is not weighted by the coverage left over
Over_Unweighted(res, layer) ==
  [rgb |-> [ch \in 1..3 |-> res.rgb[ch] + Mul(layer.a, layer.rgb[ch])],
   a |-> layer.a + Mul(res.a, Scale - layer.a)]

\* result.rgb = result.rgb + (1.0 - result.a) * layer.a * layer.rgb;
\* result.a = layer.a + result.a * (1.0 - layer.a)
Over(res, layer) ==
  [rgb |-> [ch \in 1..3 |-> res.rgb[ch] + Mul(Mul(Scale - res.a, layer.a), layer.rgb[ch])],
   a |-> layer.a + Mul(res.a, Scale - layer.a)]

\* mutant of BlendBackground: the background is not weighted by the coverage left over
BlendBackground_Unweighted(res, bg) ==
  [rgb |-> [ch \in 1..3 |-> Mul(bg[ch], bg[4]) + res.rgb[ch]],
   a |-> bg[4] + Mul(res.a, Scale - bg[4])]

\* result.rgb = background.rgb * background.a * (1.0 - result.a) + result.rgb;
\* result.a = background.a + result.a * (1.0 - background.a)
BlendBackground(res, bg) ==
  [rgb |-> [ch \in 1..3 |-> Mul(Mul(bg[ch], bg[4]), Scale - res.a) + res.rgb[ch]],
   a |-> bg[4] + Mul(res.a, Scale - bg[4])]

\* result.a == 1.0 || uNumLayers == k: the test that leaves layer k + 1 out
StopGate(res, n, k) == res.a = Scale \/ n = k

\* layer 1: raycast, premultiply
CLayer1 ==
  /\ cpc = "layer1"
  /\ \E r \in Raycasts(LayerInput(cin, 1)) :
       /\ cres' = Premultiply(r)
       /\ craw' = <<r>>
  /\ cvisited' = <<1>>
  /\ cnext' = 2
  /\ cpc' = "gate"
  /\ UNCHANGED cin
  /\ UNCHANGED <<rvars, kvars, ovars>>

\* a gate that lets layer cnext in: raycast it and blend it under the result
CLayerNext ==
  /\ cpc = "gate"
  /\ cnext <= 4
  /\ ~StopGate(cres, cin.uNumLayers, cnext - 1)
  /\ \E r \in Raycasts(LayerInput(cin, cnext)) :
       /\ cres' = Over(cres, r)
       /\ craw' = Append(craw, r)
  /\ cvisited' = Append(cvisited, cnext)
  /\ cnext' = cnext + 1
  /\ UNCHANGED <<cpc, cin>>
  /\ UNCHANGED <<rvars, kvars, ovars>>

\* a gate that is closed, or the end of the fourth layer: on to the background
CSkip ==
  /\ cpc = "gate"
  /\ (cnext > 4 \/ StopGate(cres, cin.uNumLayers, cnext - 1))
  /\ cpc' = "background"
  /\ UNCHANGED <<cin, cres, cnext, craw, cvisited>>
  /\ UNCHANGED <<rvars, kvars, ovars>>

\* the final background blend
CBackground ==
  /\ cpc = "background"
  /\ cres' = BlendBackground(cres, cin.background)
  /\ cpc' = "done"
  /\ UNCHANGED <<cin, cnext, craw, cvisited>>
  /\ UNCHANGED <<rvars, kvars, ovars>>

\* the layers looked at: depth, mask and colour images, inverse-depth range,
\* focal length in pixels (the first is a wider, outpainted layer) and resolution
LayerScenes ==
  { [depth |-> "near", mask |-> "valid",   col |-> 1, invZmin |-> Scale, invZmax |-> Scale \div 2,
     f1 |-> TexSize \div 2, iRes |-> <<TexSize, TexSize>>],
    [depth |-> "far",  mask |-> "left",    col |-> 2, invZmin |-> Scale, invZmax |-> Scale \div 2,
     f1 |-> TexSize, iRes |-> <<TexSize, TexSize>>],
    [depth |-> "ramp", mask |-> "invalid", col |-> 3, invZmin |-> Scale, invZmax |-> Scale \div 2,
     f1 |-> TexSize, iRes |-> <<TexSize, TexSize>>],
    [depth |-> "step", mask |-> "hole",    col |-> 4, invZmin |-> 2 * Scale, invZmax |-> 0,
     f1 |-> TexSize, iRes |-> <<TexSize, TexSize>>] }

\* a layer slot after createUniforms() and before any static uniform upload:
\* null samplers, invZmin 0.1, invZmax 0.01, f1 500, iRes 1280 x 800
UnboundLayer ==
  [depth |-> "far", mask |-> "valid", col |-> 0, invZmin |-> Scale \div 10,
   invZmax |-> Scale \div 100, f1 |-> 500, iRes |-> <<1280, 800>>]

\* the uniform arrays for an LDI of n layers (n = 0: nothing uploaded yet)
LayerArrays(n) ==
  { [k \in 1..4 |-> IF k <= n THEN f[k] ELSE UnboundLayer] : f \in [1..n -> LayerScenes] }

BlendInputs ==
  UNION { [ s2 : { <<-((9 * Scale) \div 20), 0>>, <<0, 0>>, <<(3 * Scale) \div 20, 0>> },
            FSKR2 : {Identity3}, C2 : {<<0, 0, 0>>}, SKR1 : {Identity3},
            C1 : { <<0, 0, 0>>, <<Scale \div 5, 0, 0>> },
            layers : LayerArrays(n), uNumLayers : {n},
            feathering : {DefaultFeathering}, background : Backgrounds ] : n \in 0..4 }

InitBlend ==
  /\ PlaneIdle
  /\ XrIdle
  /\ HostIdle
  /\ RendererIdle
  /\ KernelIdle
  /\ PoseIdle
  /\ StereoIdle
  /\ FnsIdle
  /\ cpc = "layer1"
  /\ cin \in BlendInputs
  /\ cres = <<>>
  /\ cnext = 0
  /\ craw = <<>>
  /\ cvisited = <<>>

NextBlend == CLayer1 \/ CLayerNext \/ CSkip \/ CBackground

SpecBlend == InitBlend /\ [][NextBlend]_vars

\* ------------------------------------------------ source-view pose upload
\* RaycastPlane.updateProjectorPose(s) on the CPU and the head of the
\* fragment shaders' main(), which turns the uploaded pose into C1 and SKR1.

\* mat3 flipZ = mat3(1,0,0, 0,1,0, 0,0,-1)
flipZ == << <<Scale, 0, 0>>, <<0, Scale, 0>>, <<0, 0, -Scale>> >>

\* transpose_m(M)
transpose_m(M) == [r \in 1..3 |-> [c \in 1..3 |-> M[c][r]]]

\* cos(th * 3.141593 / 180.0) for the roll angles looked at (whole degrees)
CosDeg(th) ==
  CASE th % 360 = 0   -> Scale
    [] th % 360 = 90  -> 0
    [] th % 360 = 180 -> -Scale
    [] th % 360 = 270 -> 0

\* sin(th * 3.141593 / 180.0) for the roll angles looked at (whole degrees)
SinDeg(th) ==
  CASE th % 360 = 0   -> 0
    [] th % 360 = 90  -> Scale
    [] th % 360 = 180 -> 0
    [] th % 360 = 270 -> -Scale

RECURSIVE SqrtSearch(_, _, _)
\* the largest r in lo..hi with r * r <= n (lo * lo <= n)
SqrtSearch(lo, hi, n) ==
  IF lo >= hi THEN lo
  ELSE LET mid == (lo + hi + 1) \div 2
       IN IF mid * mid <= n THEN SqrtSearch(mid, hi, n) ELSE SqrtSearch(lo, mid - 1, n)

\* sqrt(x), x >= 0
Sqrt(x) == SqrtSearch(0, 4 * Scale, x * Scale)

\* matFromRoll(th): mat3(c, s, 0, -s, c, 0, 0, 0, 1) lists columns
matFromRoll(th) ==
  << <<CosDeg(th), -SinDeg(th), 0>>, <<SinDeg(th), CosDeg(th), 0>>, <<0, 0, Scale>> >>

\* matFromSlant(sl): mat3(invsqx, 0, sl.x * invsq, 0, invsqy, sl.y * invsq,
\* -sl.x * invsqx, -sl.y * invsqy, invsq) lists columns
matFromSlant(sl) ==
  LET invsqx == Div(Scale, Sqrt(Scale + Mul(sl[1], sl[1])))
      invsqy == Div(Scale, Sqrt(Scale + Mul(sl[2], sl[2])))
      invsq  == Div(Scale, Sqrt(Scale + Mul(sl[1], sl[1]) + Mul(sl[2], sl[2])))
  IN << <<invsqx, 0, -Mul(sl[1], invsqx)>>,
        <<0, invsqy, -Mul(sl[2], invsqy)>>,
        <<Mul(sl[1], invsq), Mul(sl[2], invsq), invsq>> >>

\* mutant of useRotationMatrix: a norm of exactly 0.01 counts as present
useRotationMatrix_Inclusive(R) ==
  R[1][1] * R[1][1] + R[2][1] * R[2][1] + R[3][1] * R[3][1]
    >= (Scale \div 100) * (Scale \div 100)

\* bool useRotationMatrix = (length(uViewRotation[0]) > 0.01): uViewRotation[0]
\* is the first column; the comparison is made on the squares
useRotationMatrix(R) ==
  R[1][1] * R[1][1] + R[2][1] * R[2][1] + R[3][1] * R[3][1]
    > (Scale \div 100) * (Scale \div 100)

\* mat3 viewRotationMatrix = flipZ * transpose_m(uViewRotation) * flipZ
viewRotationMatrix(R) == MatMul(MatMul(flipZ, transpose_m(R)), flipZ)

\* SKR1 as main() builds it from one view's uniforms
ViewSKR1(u) ==
  IF useRotationMatrix(u.rot)
  THEN MatMul(matFromSkew(u.sk), viewRotationMatrix(u.rot))
  ELSE MatMul(MatMul(matFromSkew(u.sk), matFromRoll(u.roll)), matFromSlant(u.sl))

\* Object3D.matrixWorld, rotation part: parent * (rotation * scale); the
\* parents looked at are translated only
MatrixWorldRotation(obj) ==
  [r \in 1..3 |-> [c \in 1..3 |-> Mul(obj.rot[r][c], obj.scale)]]

\* new Matrix3().setFromMatrix4(camera.matrixWorldInverse) for a camera
\* that is rotated and translated only
CameraRotationInv(cam) == transpose_m(cam.rot)

\* v.applyMatrix4(camera.matrixWorldInverse)
ApplyCameraInverse(cam, v) ==
  LET Ci == CameraRotationInv(cam)
      a  == MatVec(Ci, v)
      b  == MatVec(Ci, cam.pos)
  IN << a[1] - b[1], a[2] - b[2], a[3] - b[3] >>

\* the locals posInCameraSpace and rotationInCameraSpace of one projector
PoseInCameraSpace(proj, cam) ==
  [pos |-> ApplyCameraInverse(cam, proj.pos),
   rot |-> MatMul(CameraRotationInv(cam), MatrixWorldRotation(proj))]

\* mutant of PoseUniforms: the position is copied without negating Z
PoseUniforms_NoFlip(proj, cam) ==
  [pos |-> PoseInCameraSpace(proj, cam).pos,
   rot |-> PoseInCameraSpace(proj, cam).rot]

\* uViewPosition.value.set(x, y, -z); uViewRotation.value.copy(rotationInCameraSpace)
PoseUniforms(proj, cam) ==
  LET q == PoseInCameraSpace(proj, cam)
  IN [pos |-> << q.pos[1], q.pos[2], -q.pos[3] >>, rot |-> q.rot]

\* a rotation by 90 degrees about the Y axis
RotY90 == << <<0, 0, Scale>>, <<0, Scale, 0>>, <<-Scale, 0, 0>> >>

\* a rotation by 90 degrees about the Z axis
RotZ90 == << <<0, -Scale, 0>>, <<Scale, 0, 0>>, <<0, 0, Scale>> >>

\* camera world poses looked at
CameraPoses ==
  [ rot : {Identity3, RotZ90},
    pos : { <<0, 0, 0>>, <<Scale \div 5, 0, Scale - (Scale \div 2)>> } ]

\* projectors looked at: Object3D position, rotation and (uniform) scale, and
\* the translation of the parent the projector is attached to (the scene
\* itself when zero)
ProjectorPoses ==
  [ rot : {Identity3, RotY90},
    pos : { <<0, 0, 0>>, <<Scale \div 5, 0, -(Scale \div 2)>> },
    scale : { Scale, Scale \div 100 + 1, Scale \div 100 },
    parentPos : { <<0, 0, 0>>, <<0, 0, Scale>> } ]

\* the second projector of a stereo pair
SecondProjectorPoses ==
  [ rot : {RotY90},
    pos : { <<Scale \div 10, 0, 0>>, <<Scale \div 5, 0, -(Scale \div 2)>> },
    scale : { Scale },
    parentPos : { <<0, 0, 0>> } ]

\* values written to the deprecated sk1 / sl1 / roll1 uniforms by code that
\* drives the shader directly (roll in whole degrees)
LegacyScalars ==
  { [sk |-> <<0, 0>>, sl |-> <<0, 0>>, roll |-> 0],
    [sk |-> <<0, 0>>, sl |-> <<0, 0>>, roll |-> 90],
    [sk |-> <<Scale \div 10, 0>>, sl |-> <<(3 * Scale) \div 4, 0>>, roll |-> 0] }

\* the view slots: the mono uniforms and the L / R uniforms
ViewSlots == {"mono", "L", "R"}

\* createUniforms(): position (0,0,0), rotation new THREE.Matrix3(), scalars 0
DefaultViewUniforms ==
  [pos |-> <<0, 0, 0>>, rot |-> Identity3, sk |-> <<0, 0>>, sl |-> <<0, 0>>, roll |-> 0]

\* the slots the fragment shader in use reads
SlotsOf(viewCount) == IF viewCount = 1 THEN {"mono"} ELSE {"L", "R"}

\* the projector updateProjectorPoses uploads into a slot
ProjectorOf(slot) == IF slot = "R" THEN 2 ELSE 1

\* RaycastPlane.updateProjectorPoses(camera)
PUpdateProjectorPoses ==
  /\ pviewCount \in {1, 2}
  /\ pviewCount = 2 => Len(pprojectors) >= 2
  /\ puniforms' =
       [sl \in ViewSlots |->
          IF sl \in SlotsOf(pviewCount)
          THEN LET u == PoseUniforms(pprojectors[ProjectorOf(sl)], pcamera)
               IN [puniforms[sl] EXCEPT !.pos = u.pos, !.rot = u.rot]
          ELSE puniforms[sl]]
  /\ pcpu' =
       [sl \in ViewSlots |->
          IF sl \in SlotsOf(pviewCount)
          THEN PoseInCameraSpace(pprojectors[ProjectorOf(sl)], pcamera)
          ELSE pcpu[sl]]
  /\ UNCHANGED <<pcamera, pprojectors, pviewCount, pshader>>
  /\ UNCHANGED <<rvars, kvars, cvars, svars, fvars, nvars>>

\* a caller that sets the deprecated scalar uniforms of one slot directly
PWriteLegacy(slot, v) ==
  /\ pviewCount \in {1, 2}
  /\ slot \in SlotsOf(pviewCount)
  /\ puniforms' = [puniforms EXCEPT ![slot].sk = v.sk, ![slot].sl = v.sl,
                                    ![slot].roll = v.roll]
  /\ UNCHANGED <<pcamera, pprojectors, pviewCount, pcpu, pshader>>
  /\ UNCHANGED <<rvars, kvars, cvars, svars, fvars, nvars>>

\* the head of main() in one draw: C1 and SKR1 of every view the shader reads
PShaderMain ==
  /\ pviewCount \in {1, 2}
  /\ pshader' =
       [sl \in ViewSlots |->
          IF sl \in SlotsOf(pviewCount)
          THEN [drawn |-> TRUE,
                C1 |-> puniforms[sl].pos,
                matrix |-> useRotationMatrix(puniforms[sl].rot),
                rotation |-> viewRotationMatrix(puniforms[sl].rot),
                SKR1 |-> ViewSKR1(puniforms[sl]),
                uniforms |-> puniforms[sl],
                cpu |-> pcpu[sl]]
          ELSE pshader[sl]]
  /\ UNCHANGED <<pcamera, pprojectors, pviewCount, puniforms, pcpu>>
  /\ UNCHANGED <<rvars, kvars, cvars, svars, fvars, nvars>>

\* nothing computed yet for a slot
NoPose == [drawn |-> FALSE]

InitPose ==
  /\ PlaneIdle
  /\ XrIdle
  /\ HostIdle
  /\ RendererIdle
  /\ KernelIdle
  /\ BlendIdle
  /\ StereoIdle
  /\ FnsIdle
  /\ pcamera \in CameraPoses
  /\ \/ /\ pviewCount = 1
        /\ pprojectors \in { <<a>> : a \in ProjectorPoses }
     \/ /\ pviewCount = 2
        /\ pprojectors \in { <<a, b>> : a \in { q \in ProjectorPoses : q.parentPos = <<0, 0, 0>> },
                                        b \in SecondProjectorPoses }
  /\ puniforms = [sl \in ViewSlots |-> DefaultViewUniforms]
  /\ pcpu = [sl \in ViewSlots |-> NoPose]
  /\ pshader = [sl \in ViewSlots |-> NoPose]

NextPose ==
  \/ PUpdateProjectorPoses
  \/ \E slot \in ViewSlots, v \in LegacyScalars : PWriteLegacy(slot, v)
  \/ PShaderMain

SpecPose == InitPose /\ [][NextPose]_vars

\* ------------------------------------------------- stereo LDI blending
\* One layer of rayCastStereoLDI: the layer is raycast in both views, the
\* two results are reconciled, and they are blended with the weight of the
\* observer position between the two views.  The observer moves one step
\* per frame along a line parallel to the axis from the left to the right
\* view.

\* steps between the two views on the observer's path
AxisSteps == 4

\* dot(a, b) for vec3
Dot3(a, b) == Mul(a[1], b[1]) + Mul(a[2], b[2]) + Mul(a[3], b[3])

\* a - b for vec3
VSub(a, b) == << a[1] - b[1], a[2] - b[2], a[3] - b[3] >>

\* mutant of weight2: the progress is measured from the second view
weight2_FromC2(C, C1, C2) ==
  smoothstep(0, Scale, Div(Dot3(VSub(C1, C2), VSub(C, C2)),
                           Dot3(VSub(C1, C2), VSub(C1, C2))))

\* float weight2(vec3 C, vec3 C1, vec3 C2), C1 # C2
weight2(C, C1, C2) ==
  smoothstep(0, Scale, Div(Dot3(VSub(C2, C1), VSub(C, C1)),
                           Dot3(VSub(C2, C1), VSub(C2, C1))))

\* aL and aR of the occlusion test: the alpha each view's raycasting()
\* reported for the layer
aL(in) == in.L.a

aR(in) == in.R.a

\* mutant of ReplaceL: any weaker left result is replaced
ReplaceL_NoMargin(in, l, r) ==
  (aL(in) = 0 /\ aR(in) = Scale) \/ l.a < r.a

\* if((aL == 0.0) && (aR == 1.0) || (layer1L.a < layer1R.a - 0.1))
ReplaceL(in, l, r) ==
  (aL(in) = 0 /\ aR(in) = Scale) \/ l.a < r.a - Scale \div 10

\* if((aR == 0.0) && (aL == 1.0) || (layer1R.a < layer1L.a - 0.1))
ReplaceR(in, l, r) ==
  (aR(in) = 0 /\ aL(in) = Scale) \/ r.a < l.a - Scale \div 10

\* vec4 layer = (1.0 - wR) * layer1L + wR * layer1R
StereoMix(wR, l, r) ==
  [rgb |-> [ch \in 1..3 |-> Mul(Scale - wR, l.rgb[ch]) + Mul(wR, r.rgb[ch])],
   a |-> Mul(Scale - wR, l.a) + Mul(wR, r.a)]

\* the observer position of frame k: k / AxisSteps of the way from the left
\* to the right view, displaced by the path's offset
ObserverAt(in, k) ==
  [i \in 1..3 |-> in.C1L[i] + TDiv(k * (in.C1R[i] - in.C1L[i]), AxisSteps) + in.off[i]]

\* alphas a view can report for the layer
StereoAlphas ==
  { 0, Scale \div 2, Scale \div 2 + Scale \div 10, Scale \div 2 + Scale \div 10 + 1, Scale }

\* positions of the left and right source views
StereoPairs ==
  { [C1L |-> <<-(2 * Scale) \div 5, 0, 0>>, C1R |-> <<(2 * Scale) \div 5, 0, 0>>],
    [C1L |-> <<0, 0, 0>>, C1R |-> <<(3 * Scale) \div 10, 0, (2 * Scale) \div 5>>] }

\* displacements of the observer's path from the axis
PathOffsets == { <<0, 0, 0>>, <<0, Scale \div 20, 0>> }

StereoInputs ==
  { [L |-> [rgb |-> <<Scale, 0, 0>>, a |-> al],
     R |-> [rgb |-> <<0, 0, Scale>>, a |-> ar],
     C1L |-> pr.C1L, C1R |-> pr.C1R, off |-> off, k |-> -1] :
    al \in StereoAlphas, ar \in StereoAlphas, pr \in StereoPairs, off \in PathOffsets }

\* the two raycasting() calls of the frame have returned
SRaycast ==
  /\ spc = "raycast"
  /\ sin.k <= AxisSteps + 1
  /\ sL' = sin.L
  /\ sR' = sin.R
  /\ spc' = "reconcileL"
  /\ UNCHANGED <<sin, sout>>
  /\ UNCHANGED <<rvars, kvars, cvars, pvars, fvars, nvars>>

\* the first occlusion test
SReconcileL ==
  /\ spc = "reconcileL"
  /\ sL' = IF ReplaceL(sin, sL, sR) THEN sR ELSE sL
  /\ spc' = "reconcileR"
  /\ UNCHANGED <<sin, sR, sout>>
  /\ UNCHANGED <<rvars, kvars, cvars, pvars, fvars, nvars>>

\* the second occlusion test
SReconcileR ==
  /\ spc = "reconcileR"
  /\ sR' = IF ReplaceR(sin, sL, sR) THEN sL ELSE sR
  /\ spc' = "blend"
  /\ UNCHANGED <<sin, sL, sout>>
  /\ UNCHANGED <<rvars, kvars, cvars, pvars, fvars, nvars>>

\* the blend of the frame; the observer then moves one step for the next
SBlend ==
  /\ spc = "blend"
  /\ LET C  == ObserverAt(sin, sin.k)
         wR == weight2(C, sin.C1L, sin.C1R)
     IN sout' = Append(sout, [k |-> sin.k, C |-> C, wR |-> wR,
                              layer |-> StereoMix(wR, sL, sR)])
  /\ sin' = [sin EXCEPT !.k = sin.k + 1]
  /\ spc' = "raycast"
  /\ UNCHANGED <<sL, sR>>
  /\ UNCHANGED <<rvars, kvars, cvars, pvars, fvars, nvars>>

InitStereo ==
  /\ PlaneIdle
  /\ XrIdle
  /\ HostIdle
  /\ RendererIdle
  /\ KernelIdle
  /\ BlendIdle
  /\ PoseIdle
  /\ FnsIdle
  /\ spc = "raycast"
  /\ sin \in StereoInputs
  /\ sL = <<>>
  /\ sR = <<>>
  /\ sout = <<>>

NextStereo ==
  \/ SRaycast
  \/ SReconcileL
  \/ SReconcileR
  \/ SBlend

SpecStereo == InitStereo /\ [][NextStereo]_vars

\* --------------------------------------------- feathering and depth decode
\* Single applications of taper() under a feathering value set through
\* RaycastPlane.setFeathering, and of the two depth decoders (readDisp of the
\* raycast kernel, getDepth of the mesh vertex shader).

\* sample positions per unit length on the line the taper is walked along
TaperSteps == 20

\* the values smoothstep(edge0, edge1, x) can take.  GLSL leaves the result
\* undefined when edge0 >= edge1: the built-in's expansion
\* t = clamp((x - edge0) / (edge1 - edge0), 0, 1); t * t * (3 - 2 * t) is then
\* one outcome, and so is either end of the range
smoothstepOutcomes(e0, e1, x) ==
  IF e0 < e1
  THEN { smoothstep(e0, e1, x) }
  ELSE {0, Scale} \cup
       { LET t == Clamp(q, 0, Scale) IN Mul(Mul(t, t), 3 * Scale - 2 * t) :
           q \in Quot(x - e0, e1 - e0) }

\* the values taper(uv) can take with the feathering uniform f
taperOutcomes(uv, f) ==
  { Mul(Mul(Mul(a, Scale - b), c), Scale - d) :
      a \in smoothstepOutcomes(0, f, uv[1]),
      b \in smoothstepOutcomes(Scale - f, Scale, uv[1]),
      c \in smoothstepOutcomes(0, f, uv[2]),
      d \in smoothstepOutcomes(Scale - f, Scale, uv[2]) }

\* amounts passed to setFeathering(amount: number): the default, wider
\* bands, no feathering, and a negative amount
FeatheringValues ==
  { DefaultFeathering, Scale \div 4, Scale \div 2, 0, -(Scale \div 10) }

\* the rows the sample is walked along: the middle row and one inside the
\* default band
TaperRows == { Scale \div 2, Scale \div 20 }

\* the sample position after k steps from the left edge on row y
TaperPoint(k, y) == << TDiv(k * Scale, TaperSteps), y >>

\* distance of uv from the nearest image edge
EdgeDistance(uv) ==
  LET dx == IF uv[1] < Scale - uv[1] THEN uv[1] ELSE Scale - uv[1]
      dy == IF uv[2] < Scale - uv[2] THEN uv[2] ELSE Scale - uv[2]
  IN IF dx < dy THEN dx ELSE dy

\* RaycastPlane.setFeathering(amount); the walk starts again from the edge
FSetFeathering(amount) ==
  /\ fpc = "taper"
  /\ fin' = [fin EXCEPT !.feathering = amount, !.k = 0]
  /\ fout' = <<>>
  /\ UNCHANGED fpc
  /\ UNCHANGED <<rvars, kvars, cvars, pvars, svars, nvars>>

\* taper(uv) at the current sample position; the sample then moves one step
\* away from the left edge, up to the middle of the row
FTaper ==
  /\ fpc = "taper"
  /\ 2 * fin.k <= TaperSteps
  /\ LET uv == TaperPoint(fin.k, fin.y)
     IN \E v \in taperOutcomes(uv, fin.feathering) :
          fout' = Append(fout, [uv |-> uv, feathering |-> fin.feathering, a |-> v])
  /\ fin' = [fin EXCEPT !.k = fin.k + 1]
  /\ UNCHANGED fpc
  /\ UNCHANGED <<rvars, kvars, cvars, pvars, svars, nvars>>

\* texture(depthTexture, uv).r
sampleRed(pat, uv, iRes) ==
  Texture(DepthImage(pat, iRes[1], iRes[2]), uv, iRes[1], iRes[2])

\* clampedUV of readDisp
clampedUV(uv, iRes) ==
  << Clamp(uv[1], TDiv(2 * Scale, iRes[1]), Scale - TDiv(2 * Scale, iRes[1])),
     Clamp(uv[2], TDiv(2 * Scale, iRes[2]), Scale - TDiv(2 * Scale, iRes[2])) >>

\* mutant of mix: the two ends are exchanged
mix_Swapped(x, y, a) == Mul(x, a) + Mul(y, Scale - a)

\* mix(x, y, a) = x * (1 - a) + y * a
mix(x, y, a) == Mul(x, Scale - a) + Mul(y, a)

\* const float INF_Z = 1e6
INF_Z == 1000000 * Scale

\* float invZ = mix(invZMax, invZMin, depthValue) of getDepth
getDepthInvZ(pat, uv, in) == mix(in.invZmax, in.invZmin, sampleRed(pat, uv, in.iRes))

\* getDepth(uv) of holoVertex.glsl; abs(invZ) < EPSILON with EPSILON = 1e-8
\* holds of no fixed-point value but 0
getDepth(pat, uv, in) ==
  LET invZ == getDepthInvZ(pat, uv, in)
  IN IF invZ = 0 THEN INF_Z ELSE Div(in.baseline, invZ)

\* (invZmin, invZmax) pairs decoded with: the mesh defaults, the kernel's
\* ranges, and one whose ends are not multiples of a round step
DecodeRanges ==
  { <<Scale \div 10, Scale \div 100>>, <<Scale, Scale \div 2>>, <<2 * Scale, 0>>,
    <<(2 * Scale) \div 3, Scale \div 7>> }

\* texture coordinates decoded at
DecodePoints ==
  { <<Scale \div 2, Scale \div 2>>, <<(3 * Scale) \div 10, Scale \div 2>>,
    <<Scale \div 20, Scale \div 2>>, <<(13 * Scale) \div 16, Scale \div 4>> }

DecodeInputs ==
  { [depth |-> pat, uv |-> uv, invZmin |-> rg[1], invZmax |-> rg[2],
     baseline |-> (63 * Scale) \div 1000, iRes |-> <<TexSize, TexSize>>] :
    pat \in {"near", "far", "mid", "ramp"}, uv \in DecodePoints, rg \in DecodeRanges }

\* an operation has already been recorded
Recorded(op) == \E i \in 1..Len(fout) : fout[i].op = op

\* the kernel's decode of one sample
FReadDisp ==
  /\ fpc = "decode"
  /\ ~Recorded("readDisp")
  /\ fout' = Append(fout,
       [op |-> "readDisp",
        r |-> sampleRed(fin.depth, clampedUV(fin.uv, fin.iRes), fin.iRes),
        invZ |-> readDisp(fin.depth, fin.uv, fin.invZmin, fin.invZmax, fin.iRes)])
  /\ UNCHANGED <<fpc, fin>>
  /\ UNCHANGED <<rvars, kvars, cvars, pvars, svars, nvars>>

\* the mesh vertex shader's decode of one sample
FGetDepth ==
  /\ fpc = "decode"
  /\ ~Recorded("getDepth")
  /\ fout' = Append(fout,
       [op |-> "getDepth",
        r |-> sampleRed(fin.depth, fin.uv, fin.iRes),
        invZ |-> getDepthInvZ(fin.depth, fin.uv, fin),
        depth |-> getDepth(fin.depth, fin.uv, fin)])
  /\ UNCHANGED <<fpc, fin>>
  /\ UNCHANGED <<rvars, kvars, cvars, pvars, svars, nvars>>

InitFns ==
  /\ PlaneIdle
  /\ XrIdle
  /\ HostIdle
  /\ RendererIdle
  /\ KernelIdle
  /\ BlendIdle
  /\ PoseIdle
  /\ StereoIdle
  /\ fout = <<>>
  /\ \/ /\ fpc = "taper"
        /\ fin \in { [feathering |-> DefaultFeathering, y |-> y, k |-> 0] : y \in TaperRows }
     \/ /\ fpc = "decode"
        /\ fin \in DecodeInputs

NextFns ==
  \/ \E amount \in FeatheringValues : FSetFeathering(amount)
  \/ FTaper
  \/ FReadDisp
  \/ FGetDepth

SpecFns == InitFns /\ [][NextFns]_vars

\* ------------------------------- one RaycastPlane under overlapping calls
\* A single RaycastPlane whose projectors carry one layer each.  The
\* asynchronous methods (initializeFromProjector, updateProjectorData,
\* toggleViewMode) run up to their first await when called and go on, one
\* await at a time, as the image loads complete; calls may overlap.  Frames
\* of the render loop and dispose() run between them.  A texture entry is
\* the { rgb, depthMask } pair stored under one key of layerTextures.

\* asynchronous calls made on the plane in one run
MaxCalls == 3

\* new RaycastPlane(1, 1)
TNewPlane ==
  [ nproj |-> 0,                \* this.projectors.length
    projector |-> 0,            \* this.projector: 0 is null
    viewCount |-> 1,
    shader |-> "mono",          \* material.fragmentShader
    slots |-> [k \in {"L", "R"} |-> 0],   \* layerTextures keys 0 and 100
    bound |-> [k \in ViewSlots |-> 0],    \* uImage[0], uImageL[0], uImageR[0]
    staticFor |-> 0,            \* the branch updateStaticUniforms last took
    posed |-> {},               \* pose uniforms holding the current frame's pose
    dynFresh |-> FALSE,         \* dynamic uniforms hold the current frame's camera
    disposed |-> FALSE ]

\* updateStaticUniforms()
TUpdateStaticUniforms(pl) ==
  IF pl.projector = 0 THEN pl
  ELSE IF pl.viewCount = 1
  THEN [pl EXCEPT !.bound["mono"] = IF pl.slots["L"] # 0 THEN pl.slots["L"] ELSE @,
                  !.staticFor = 1,
                  !.posed = @ \ {"mono"}]
  ELSE [pl EXCEPT !.bound["L"] = IF pl.slots["L"] # 0 THEN pl.slots["L"] ELSE @,
                  !.bound["R"] = IF pl.slots["R"] # 0 THEN pl.slots["R"] ELSE @,
                  !.staticFor = 2,
                  !.posed = @ \ {"L", "R"}]

\* updateProjectorPoses(camera)
TUpdateProjectorPoses(pl) ==
  IF pl.viewCount = 1
  THEN (IF pl.projector # 0 THEN [pl EXCEPT !.posed = @ \cup {"mono"}] ELSE pl)
  ELSE (IF pl.nproj >= 2 THEN [pl EXCEPT !.posed = @ \cup {"L", "R"}] ELSE pl)

\* updateDynamicUniforms(camera, renderer)
TUpdateDynamicUniforms(pl) == [pl EXCEPT !.dynFresh = TRUE]

\* getViewMode()
getViewMode(pl) == IF pl.viewCount = 1 THEN "mono" ELSE "stereo"

\* the texture entries the shader in use samples are loaded and bound
TexturesFor(pl) ==
  IF pl.shader = "mono"
  THEN pl.bound["mono"] # 0 /\ pl.bound["mono"] = pl.slots["L"]
  ELSE /\ pl.bound["L"] # 0 /\ pl.bound["L"] = pl.slots["L"]
       /\ pl.bound["R"] # 0 /\ pl.bound["R"] = pl.slots["R"]

\* renderer.render(this.raycastPlane, camera), as the log records it
TRenderEvent(pl) ==
  [viewCount |-> pl.viewCount, shader |-> pl.shader, posed |-> pl.posed,
   dynFresh |-> pl.dynFresh, staticFor |-> pl.staticFor, textures |-> TexturesFor(pl)]

\* mutant of FrameSteps: the plane is rendered before its uniforms are updated
FrameSteps_RenderFirst == <<"render", "poses", "dynamic">>

\* the statements of a frame after the plane exists, in program order
FrameSteps == <<"poses", "dynamic", "render">>

RECURSIVE TRunFrame(_, _, _)
\* the frame's statements from the i-th on, applied to the plane pl with the
\* render events ev issued so far
TRunFrame(pl, ev, i) ==
  IF i > Len(FrameSteps) THEN [plane |-> pl, events |-> ev]
  ELSE IF FrameSteps[i] = "poses" THEN TRunFrame(TUpdateProjectorPoses(pl), ev, i + 1)
  ELSE IF FrameSteps[i] = "dynamic" THEN TRunFrame(TUpdateDynamicUniforms(pl), ev, i + 1)
  ELSE TRunFrame(pl, ev \cup {TRenderEvent(pl)}, i + 1)

\* the first await of loadLayerTextures / loadStereoLayerTextures
FirstStage(op) == IF op = "toggle" THEN "rgbL" ELSE "rgb"

\* the await that follows stage st, "store" when the try block's loads are done
NextStage(st) ==
  CASE st = "rgb" -> "depthMask"
    [] st = "depthMask" -> "store"
    [] st = "rgbL" -> "depthMaskL"
    [] st = "depthMaskL" -> "rgbR"
    [] st = "rgbR" -> "depthMaskR"
    [] st = "depthMaskR" -> "store"

\* a call record of tcalls
PendingCall(op, proj, mode) ==
  [op |-> op, stage |-> FirstStage(op), proj |-> proj, mode |-> mode, done |-> FALSE]

\* initializeFromProjector(projectors) up to the first await; n projectors
TInitialize(n) ==
  /\ tplane.nproj = 0
  /\ Len(tcalls) < MaxCalls
  /\ tplane' = [tplane EXCEPT !.nproj = n, !.projector = 1, !.viewCount = 1]
  /\ tcalls' = Append(tcalls, PendingCall("init", 1, "none"))
  /\ UNCHANGED <<ttex, tlayer, tlog>>
  /\ UNCHANGED <<rvars, kvars, cvars, pvars, svars, fvars, xvars, hvars>>

\* updateProjectorData(projector j) up to the first await
TUpdateProjectorData(j) ==
  /\ tplane.nproj > 0
  /\ Len(tcalls) < MaxCalls
  /\ tplane' = [tplane EXCEPT !.projector = j]
  /\ tcalls' = Append(tcalls, PendingCall("update", j, "none"))
  /\ UNCHANGED <<ttex, tlayer, tlog>>
  /\ UNCHANGED <<rvars, kvars, cvars, pvars, svars, fvars, xvars, hvars>>

\* toggleViewMode() up to its first await, or to its end when it has none
TToggleViewMode ==
  /\ tplane.nproj > 0
  /\ Len(tcalls) < MaxCalls
  /\ IF tplane.nproj < 2
     THEN /\ tcalls' = Append(tcalls, [PendingCall("toggle", 0, "mono") EXCEPT !.done = TRUE])
          /\ tlog' = [tlog EXCEPT !.resolved = @ \cup
                        {[call |-> Len(tcalls) + 1, value |-> "mono",
                          viewMode |-> getViewMode(tplane)]}]
          /\ UNCHANGED tplane
     ELSE LET old  == tplane.viewCount
              new  == IF old = 1 THEN 2 ELSE 1
              mode == IF new = 1 THEN "mono" ELSE "stereo"
              pl   == [tplane EXCEPT !.viewCount = new]
          IN IF new = 2 /\ old = 1
             THEN /\ tplane' = pl
                  /\ tcalls' = Append(tcalls, PendingCall("toggle", 0, mode))
                  /\ UNCHANGED tlog
             ELSE /\ tplane' = [pl EXCEPT !.shader = getViewMode(pl)]
                  /\ tcalls' = Append(tcalls, [PendingCall("toggle", 0, mode) EXCEPT !.done = TRUE])
                  /\ tlog' = [tlog EXCEPT !.resolved = @ \cup
                                {[call |-> Len(tcalls) + 1, value |-> mode,
                                  viewMode |-> getViewMode(pl)]}]
  /\ UNCHANGED <<ttex, tlayer>>
  /\ UNCHANGED <<rvars, kvars, cvars, pvars, svars, fvars, xvars, hvars>>

\* a new texture entry
NewTexture == [disposed |-> FALSE]

\* the await call c stands at completes; when it was the last of the try
\* block the entries are stored and the method runs to its end
TLoadStep(c) ==
  /\ c \in 1..Len(tcalls)
  /\ ~tcalls[c].done
  /\ LET call == tcalls[c]
         nx   == NextStage(call.stage)
         k    == Len(ttex) + 1
     IN IF nx # "store"
        THEN /\ tcalls' = [tcalls EXCEPT ![c].stage = nx]
             /\ UNCHANGED <<tplane, ttex, tlayer, tlog>>
        ELSE IF call.op = "toggle"
        THEN LET stored == [tplane EXCEPT !.slots["L"] = k, !.slots["R"] = k + 1]
                 static == TUpdateStaticUniforms(stored)
                 pl     == [static EXCEPT !.shader = getViewMode(static)]
             IN /\ ttex' = ttex \o <<NewTexture, NewTexture>>
                /\ tplane' = pl
                /\ tcalls' = [tcalls EXCEPT ![c].stage = "store", ![c].done = TRUE]
                /\ tlog' = [tlog EXCEPT !.resolved = @ \cup
                              {[call |-> c, value |-> call.mode, viewMode |-> getViewMode(pl)]}]
                /\ UNCHANGED tlayer
        ELSE /\ ttex' = Append(ttex, NewTexture)
             /\ tlayer' = [tlayer EXCEPT ![call.proj] = k]
             /\ tplane' = TUpdateStaticUniforms([tplane EXCEPT !.slots["L"] = k])
             /\ tcalls' = [tcalls EXCEPT ![c].stage = "store", ![c].done = TRUE]
             /\ UNCHANGED tlog
  /\ UNCHANGED <<rvars, kvars, cvars, pvars, svars, fvars, xvars, hvars>>

\* dispose(): every entry of layerTextures is disposed and the map cleared
TDispose ==
  /\ ~tplane.disposed
  /\ ttex' = [k \in 1..Len(ttex) |->
                IF k \in {tplane.slots["L"], tplane.slots["R"]}
                THEN [ttex[k] EXCEPT !.disposed = TRUE] ELSE ttex[k]]
  /\ tplane' = [tplane EXCEPT !.slots = [s \in {"L", "R"} |-> 0], !.disposed = TRUE]
  /\ UNCHANGED <<tlayer, tcalls, tlog>>
  /\ UNCHANGED <<rvars, kvars, cvars, pvars, svars, fvars, xvars, hvars>>

\* a frame of the render loop on the plane: renderRaycastLayerStereo from
\* camera.updateMatrixWorld() on.  The pose and camera uniforms hold a
\* frame's values only until the frame ends
TFrame ==
  /\ tplane.nproj > 0
  /\ ~tplane.disposed
  /\ LET r == TRunFrame(tplane, {}, 1)
     IN /\ tlog' = [tlog EXCEPT !.renders = @ \cup r.events]
        /\ tplane' = [r.plane EXCEPT !.posed = {}, !.dynFresh = FALSE]
  /\ UNCHANGED <<ttex, tlayer, tcalls>>
  /\ UNCHANGED <<rvars, kvars, cvars, pvars, svars, fvars, xvars, hvars>>

\* renderMeshLayer on projector j: layer.rgbTexture || EMPTY_TEXTURE is sampled
TMeshFrame(j) ==
  /\ tlog' = [tlog EXCEPT !.mesh = @ \cup
                {[sampled |-> tlayer[j] # 0,
                  disposed |-> tlayer[j] # 0 /\ ttex[tlayer[j]].disposed]}]
  /\ UNCHANGED <<tplane, ttex, tlayer, tcalls>>
  /\ UNCHANGED <<rvars, kvars, cvars, pvars, svars, fvars, xvars, hvars>>

InitPlane ==
  /\ RendererIdle
  /\ KernelIdle
  /\ BlendIdle
  /\ PoseIdle
  /\ StereoIdle
  /\ FnsIdle
  /\ XrIdle
  /\ HostIdle
  /\ tplane = TNewPlane
  /\ ttex = <<>>
  /\ tlayer = [j \in 1..2 |-> 0]
  /\ tcalls = <<>>
  /\ tlog = [renders |-> {}, resolved |-> {}, mesh |-> {}]

NextPlane ==
  \/ \E n \in 1..2 : TInitialize(n)
  \/ \E j \in 1..2 : TUpdateProjectorData(j)
  \/ TToggleViewMode
  \/ \E c \in 1..MaxCalls : TLoadStep(c)
  \/ TDispose
  \/ TFrame
  \/ \E j \in 1..2 : TMeshFrame(j)

SpecPlane == InitPlane /\ [][NextPlane]_vars

\* ---- loadLifFile and the plane distance (controller.d.ts:575-684, part_003:173-307)

MaxLoads == 2

\* baseline_mm of the file's metadata; 0 stands for an absent field
BaselinesMm == {0, 45, 63, 2000}

\* stereo_render_data.invd of the file, in fixed point
Invds == {0, Scale \div 2, Scale, 4 * Scale}

\* const baselineMeters = lifData.baseline_mm ? lifData.baseline_mm / 1000 : 1.0
baselineMeters(baseline_mm) ==
  IF baseline_mm # 0 THEN TDiv(baseline_mm * Scale, 1000) ELSE Scale

\* const convergenceDepth = baselineMeters / invd
convergenceDepth(baseline, invd) == Div(baseline, invd)

updatePlaneDistance_FromInvd(st) ==
  IF st.hasInvd /\ st.invdFromStereoData # 0
  THEN Div(baselineMeters(st.baseline_mm), st.invdFromStereoData)
  ELSE 1000000 * Scale

\* RaycastPlane.updatePlaneDistance: this.planeDistance = 1e6
updatePlaneDistance(st) == 1000000 * Scale

\* a file picked by the user, not yet read
LifFile(mm, has, invd, dist, n) ==
  [baseline_mm |-> mm, hasStereo |-> has, invd |-> invd,
   baseline |-> 0, orbit |-> FALSE, convergenceDepth |-> 0,
   hasInvd |-> FALSE, invdFromStereoData |-> 0,
   planeDistance |-> dist, loads |-> n]

\* loadLifFile: baseline and, with a usable invd, the orbit centre's depth
LLoadLifFile ==
  /\ hpc = "file"
  /\ LET b == baselineMeters(hstate.baseline_mm)
         valid == hstate.hasStereo /\ hstate.invd # 0
     IN  hstate' = [hstate EXCEPT
           !.baseline = b,
           !.orbit = valid,
           !.convergenceDepth = IF valid THEN convergenceDepth(b, hstate.invd) ELSE 0]
  /\ hpc' = "loaded"
  /\ UNCHANGED <<rvars, kvars, cvars, pvars, svars, fvars, tvars, xvars, hlog>>

\* initializeFromProjector(projectors, invd) up to its await
LInitializeFromProjector ==
  /\ hpc = "loaded"
  /\ hstate' = [hstate EXCEPT
       !.hasInvd = hstate.hasInvd \/ hstate.hasStereo,
       !.invdFromStereoData = IF hstate.hasStereo THEN hstate.invd ELSE @]
  /\ hpc' = "loading"
  /\ UNCHANGED <<rvars, kvars, cvars, pvars, svars, fvars, tvars, xvars, hlog>>

\* the textures have loaded: updatePlaneDistance()
LTexturesLoaded ==
  /\ hpc = "loading"
  /\ hstate' = [hstate EXCEPT !.planeDistance = updatePlaneDistance(hstate),
                              !.loads = @ + 1]
  /\ hpc' = "ready"
  /\ UNCHANGED <<rvars, kvars, cvars, pvars, svars, fvars, tvars, xvars, hlog>>

\* another file is picked and the same plane initialised again
LPickFile(mm, has, invd) ==
  /\ hpc = "ready"
  /\ hstate.loads < MaxLoads
  /\ hstate' = [LifFile(mm, has, invd, hstate.planeDistance, hstate.loads)
                  EXCEPT !.hasInvd = hstate.hasInvd,
                         !.invdFromStereoData = hstate.invdFromStereoData]
  /\ hpc' = "file"
  /\ UNCHANGED <<rvars, kvars, cvars, pvars, svars, fvars, tvars, xvars, hlog>>

InitLoad ==
  /\ RendererIdle /\ KernelIdle /\ BlendIdle /\ PoseIdle /\ StereoIdle
  /\ FnsIdle /\ PlaneIdle /\ XrIdle
  /\ hpc = "file"
  /\ \E mm \in BaselinesMm, has \in BOOLEAN, invd \in Invds :
       hstate = LifFile(mm, has, invd, Scale, 0)
  /\ hlog = <<>>

NextLoad ==
  \/ LLoadLifFile
  \/ LInitializeFromProjector
  \/ LTexturesLoaded
  \/ \E mm \in BaselinesMm, has \in BOOLEAN, invd \in Invds : LPickFile(mm, has, invd)

SpecLoad == InitLoad /\ [][NextLoad]_vars

\* ---- auto-injection of the HoloRenderer (part_004:180, 349-386)

MaxProjectors == 3
MaxRenders == 3

hasHoloRenderer_Unchecked(st) == FALSE

\* scene.traverse((c) => { if (c instanceof HoloRenderer) hasHoloRenderer = true })
hasHoloRenderer(st) == st.manual \/ st.injected > 0

\* mesh.onBeforeRender of the detection mesh of projector i
onBeforeRender(st, i, isScene) ==
  IF ~st.mesh[i] THEN st
  ELSE IF ~isScene THEN [st EXCEPT !.mesh[i] = FALSE]
  ELSE [st EXCEPT !.injected = IF hasHoloRenderer(st) THEN @ ELSE @ + 1,
                  !.mesh[i] = FALSE]

\* one render call: the detection meshes in the render list, in order
RECURSIVE IRunList(_, _, _)
IRunList(st, i, isScene) ==
  IF i > Len(st.mesh) THEN st
  ELSE IRunList(onBeforeRender(st, i, isScene), i + 1, isScene)

\* new HoloProjector(...); scene.add(projector)
IAddProjector ==
  /\ hpc = "scene"
  /\ Len(hstate.mesh) < MaxProjectors
  /\ hstate' = [hstate EXCEPT !.mesh = Append(@, TRUE)]
  /\ UNCHANGED <<rvars, kvars, cvars, pvars, svars, fvars, tvars, xvars, hpc, hlog>>

\* scene.add(new HoloRenderer(...)) by the application
IAddRenderer ==
  /\ hpc = "scene"
  /\ ~hstate.manual
  /\ hstate' = [hstate EXCEPT !.manual = TRUE, !.manualAt = hstate.renders]
  /\ UNCHANGED <<rvars, kvars, cvars, pvars, svars, fvars, tvars, xvars, hpc, hlog>>

\* renderer.render(root, camera); isScene is root.isScene
IRender(isScene) ==
  /\ hpc = "scene"
  /\ hstate.renders < MaxRenders
  /\ hstate' = [IRunList(hstate, 1, isScene) EXCEPT
                  !.renders = @ + 1,
                  !.offScene = @ \/ ~isScene]
  /\ UNCHANGED <<rvars, kvars, cvars, pvars, svars, fvars, tvars, xvars, hpc, hlog>>

InitInject ==
  /\ RendererIdle /\ KernelIdle /\ BlendIdle /\ PoseIdle /\ StereoIdle
  /\ FnsIdle /\ PlaneIdle /\ XrIdle
  /\ hpc = "scene"
  /\ hstate = [mesh |-> <<TRUE>>, manual |-> FALSE, manualAt |-> 0,
               injected |-> 0, renders |-> 0, offScene |-> FALSE]
  /\ hlog = <<>>

NextInject ==
  \/ IAddProjector
  \/ IAddRenderer
  \/ \E isScene \in BOOLEAN : IRender(isScene)

SpecInject == InitInject /\ [][NextInject]_vars

\* ---- HoloProjector initialisation (part_004:36-39, 126-237)

\* what options.onLoad is: absent, a function returning void, or one
\* returning a promise
OnLoadKinds == {"none", "sync", "async"}

\* the texture URLs the options carry
Requested(st) ==
  (IF st.rgbUrl THEN {"rgb"} ELSE {}) \cup (IF st.depthUrl THEN {"depth"} ELSE {})

AllLoaded_Any(st) == st.loaded # {}

\* await Promise.all(promises): every requested texture has loaded
AllLoaded(st) == Requested(st) \subseteq st.loaded

\* the call of options.onLoad(this) and what the continuation waits for
CallOnLoad(st) ==
  IF st.onLoad = "async"
  THEN [st EXCEPT !.onLoadState = "running"]
  ELSE [st EXCEPT !.onLoadState = IF st.onLoad = "sync" THEN "done" ELSE @,
                  !.initialized = "resolved"]

\* new HoloProjector(options), to the end of the constructor
Constructed(rgbUrl, depthUrl, onLoad, width, height) ==
  LET st == [rgbUrl |-> rgbUrl, depthUrl |-> depthUrl, onLoad |-> onLoad,
             width |-> width, height |-> height, loaded |-> {}, failed |-> {},
             isInitialized |-> FALSE, onLoadState |-> "notcalled",
             initialized |-> "pending"]
  IN  IF rgbUrl \/ depthUrl
      THEN st
      ELSE CallOnLoad([st EXCEPT !.isInitialized = TRUE])

\* loader.load's onLoad / onError callback of one texture
PTexture(u, ok) ==
  /\ hpc = "projector"
  /\ u \in Requested(hstate) \ (hstate.loaded \cup hstate.failed)
  /\ hstate' =
       IF ok
       THEN LET measure == u = "rgb" /\ (hstate.width = 0 \/ hstate.height = 0)
            IN  [hstate EXCEPT !.loaded = @ \cup {u},
                               !.width = IF measure THEN TexSize ELSE @,
                               !.height = IF measure THEN TexSize ELSE @]
       ELSE [hstate EXCEPT !.failed = @ \cup {u},
                           !.initialized = IF @ = "pending" /\ ~hstate.isInitialized
                                           THEN "rejected" ELSE @]
  /\ UNCHANGED <<rvars, kvars, cvars, pvars, svars, fvars, tvars, xvars, hpc, hlog>>

\* the continuation after asyncInitialize: isInitialized, then onLoad
PInitialized ==
  /\ hpc = "projector"
  /\ Requested(hstate) # {}
  /\ ~hstate.isInitialized
  /\ hstate.initialized = "pending"
  /\ AllLoaded(hstate)
  /\ hstate' = CallOnLoad([hstate EXCEPT !.isInitialized = TRUE])
  /\ UNCHANGED <<rvars, kvars, cvars, pvars, svars, fvars, tvars, xvars, hpc, hlog>>

\* the promise onLoad returned settles
POnLoadSettled(ok) ==
  /\ hpc = "projector"
  /\ hstate.onLoadState = "running"
  /\ hstate' = [hstate EXCEPT !.onLoadState = IF ok THEN "done" ELSE "failed",
                              !.initialized = IF ok THEN "resolved" ELSE "rejected"]
  /\ UNCHANGED <<rvars, kvars, cvars, pvars, svars, fvars, tvars, xvars, hpc, hlog>>

InitProjector ==
  /\ RendererIdle /\ KernelIdle /\ BlendIdle /\ PoseIdle /\ StereoIdle
  /\ FnsIdle /\ PlaneIdle /\ XrIdle
  /\ hpc = "projector"
  /\ \E rgbUrl \in BOOLEAN, depthUrl \in BOOLEAN, onLoad \in OnLoadKinds,
        width \in {0, TexSize}, height \in {0, TexSize} :
       hstate = Constructed(rgbUrl, depthUrl, onLoad, width, height)
  /\ hlog = <<>>

NextProjector ==
  \/ \E u \in {"rgb", "depth"}, ok \in BOOLEAN : PTexture(u, ok)
  \/ PInitialized
  \/ \E ok \in BOOLEAN : POnLoadSettled(ok)

SpecProjector == InitProjector /\ [][NextProjector]_vars

\* ---- per-eye XR planes (part_005:337-363, 478-601, 915-1033, 1106-1122)

MaxXRFrames == 3
MaxQuadCalls == 2

\* new RaycastPlane(1, 1) for one eye
XNewPlane(eye) ==
  [eye |-> eye, loaded |-> FALSE, live |-> FALSE, ready |-> FALSE,
   inScene |-> FALSE, disposed |-> FALSE]

\* an async function suspended at an await: which one, where, and the plane
\* whose promise it awaits
XCoroutine(kind, pc, plane) == [kind |-> kind, pc |-> pc, plane |-> plane]

\* positions at which the per-eye planes are still being initialised
XInitPositions == {"leftInit", "leftToggle", "rightInit", "rightToggle"}

XInitRunning(st) ==
  \E c \in 1..Len(st.co) : st.co[c].pc \in XInitPositions

XSetPc(st, c, pc, plane) ==
  [st EXCEPT !.co[c].pc = pc, !.co[c].plane = plane]

\* a TypeError on a null field ends the async function
XThrow(st, c) == XSetPc(st, c, "failed", 0)

\* this.raycastPlaneRight = new RaycastPlane(1, 1); await ...initializeFromProjector
XCreateRight(st, c) ==
  LET id == Len(st.planes) + 1
  IN  XSetPc([st EXCEPT !.planes = Append(@, XNewPlane("right")), !.right = id],
             c, "rightInit", id)

\* renderXRLegacy after the left plane's awaits: layers, scene.add, then the
\* right plane
XLegacyLeftBlock(st, c) ==
  IF st.left = 0 THEN XThrow(st, c)
  ELSE XCreateRight([st EXCEPT !.planes[st.left].ready = TRUE,
                               !.planes[st.left].inScene = TRUE], c)

\* renderXRLegacy after the right plane's awaits
XLegacyRightBlock(st, c) ==
  IF st.right = 0 THEN XThrow(st, c)
  ELSE XSetPc([st EXCEPT !.planes[st.right].ready = TRUE,
                         !.planes[st.right].inScene = TRUE], c, "done", 0)

\* initializeXRQuadLayers from `const planeDistance = ...` to its last await
XQuadTail(st, c) ==
  IF st.left = 0 \/ st.right = 0 \/ ~st.quad THEN XThrow(st, c)
  ELSE XSetPc(st, c, "renderState", 0)

\* initializeXRQuadLayers after the left plane's awaits
XQuadLeftDone(st, c) ==
  XCreateRight(IF st.left = 0 THEN st
               ELSE [st EXCEPT !.planes[st.left].ready = TRUE], c)

\* initializeXRQuadLayers after the right plane's awaits
XQuadRightDone(st, c) ==
  XQuadTail(IF st.right = 0 THEN st
            ELSE [st EXCEPT !.planes[st.right].ready = TRUE], c)

\* the statements that follow the await at which coroutine c was suspended
XContinue(st, c) ==
  LET co == st.co[c]
  IN  CASE co.pc = "leftInit" /\ co.kind = "legacy" ->
             IF st.stereo
             THEN IF st.left = 0 THEN XThrow(st, c)
                  ELSE XSetPc(st, c, "leftToggle", st.left)
             ELSE XLegacyLeftBlock(st, c)
        [] co.pc = "leftToggle" /\ co.kind = "legacy" -> XLegacyLeftBlock(st, c)
        [] co.pc = "rightInit" /\ co.kind = "legacy" ->
             IF st.stereo
             THEN IF st.right = 0 THEN XThrow(st, c)
                  ELSE XSetPc(st, c, "rightToggle", st.right)
             ELSE XLegacyRightBlock(st, c)
        [] co.pc = "rightToggle" /\ co.kind = "legacy" -> XLegacyRightBlock(st, c)
        [] co.pc = "leftInit" /\ co.kind = "quad" ->
             IF st.left = 0 THEN XThrow(st, c)
             ELSE IF st.stereo THEN XSetPc(st, c, "leftToggle", st.left)
             ELSE XQuadLeftDone(st, c)
        [] co.pc = "leftToggle" /\ co.kind = "quad" -> XQuadLeftDone(st, c)
        [] co.pc = "rightInit" /\ co.kind = "quad" ->
             IF st.right = 0 THEN XThrow(st, c)
             ELSE IF st.stereo THEN XSetPc(st, c, "rightToggle", st.right)
             ELSE XQuadRightDone(st, c)
        [] co.pc = "rightToggle" /\ co.kind = "quad" -> XQuadRightDone(st, c)
        [] OTHER -> XSetPc(st, c, "done", 0)

\* renderXRWithQuadLayers and renderXRLegacy: the frame returns before it
\* touches a plane
XFrameSkipped(st) == st.left = 0 \/ st.right = 0

\* what one frame did, as the log records it
XFrameEvent(st, skipped) ==
  [skipped |-> skipped,
   initRunning |-> XInitRunning(st),
   unready |-> /\ ~skipped
               /\ \E id \in {st.left, st.right} \ {0} : ~st.planes[id].ready]

\* renderXR: one XR frame
XFrame ==
  /\ xpc = "session"
  /\ xstate.frames < MaxXRFrames
  /\ LET st == [xstate EXCEPT !.frames = @ + 1]
         skipped == XFrameSkipped(st)
     IN  /\ xlog' = xlog \cup {XFrameEvent(st, skipped)}
         /\ xstate' =
              IF skipped
              THEN IF ~st.quad /\ ~st.isXRInitialized
                   THEN LET id == Len(st.planes) + 1
                        IN  [st EXCEPT
                              !.isXRInitialized = TRUE,
                              !.planes = Append(@, XNewPlane("left")),
                              !.left = id,
                              !.co = Append(@, XCoroutine("legacy", "leftInit", id))]
                   ELSE st
              ELSE IF st.quad THEN st
              ELSE [st EXCEPT !.planes[st.left].inScene = TRUE,
                              !.planes[st.right].inScene = TRUE]
  /\ UNCHANGED <<rvars, kvars, cvars, pvars, svars, fvars, tvars, hvars, xpc>>

\* initializeXRQuadLayers, up to its first await
XInitializeQuadLayers ==
  /\ xpc = "session"
  /\ xstate.quadCalls < MaxQuadCalls
  /\ LET st == [xstate EXCEPT !.quadCalls = @ + 1]
         c == Len(st.co) + 1
     IN  xstate' =
           IF ~st.viewerSpace THEN st
           ELSE IF st.left = 0
           THEN LET id == Len(st.planes) + 1
                IN  [st EXCEPT
                      !.quad = TRUE,
                      !.planes = Append(@, XNewPlane("left")),
                      !.left = id,
                      !.co = Append(@, XCoroutine("quad", "leftInit", id))]
           ELSE XQuadTail([st EXCEPT !.quad = TRUE,
                                     !.co = Append(@, XCoroutine("quad", "tail", 0))], c)
  /\ UNCHANGED <<rvars, kvars, cvars, pvars, svars, fvars, tvars, hvars, xpc, xlog>>

\* the promise coroutine c awaits resolves: the awaited plane has stored its
\* textures (layerTextures.set, whether or not it was disposed meanwhile) and
\* the caller continues
XResume(c) ==
  /\ xstate.co[c].pc \in XInitPositions \cup {"renderState"}
  /\ LET p == xstate.co[c].plane
         st == IF p = 0 THEN xstate
               ELSE [xstate EXCEPT !.planes[p].loaded = TRUE,
                                   !.planes[p].live = TRUE]
     IN  xstate' = XContinue(st, c)
  /\ UNCHANGED <<rvars, kvars, cvars, pvars, svars, fvars, tvars, hvars, xpc, xlog>>

\* removeFromParent(); dispose() of one per-eye plane
XDisposePlane(ps, id) ==
  IF id = 0 THEN ps
  ELSE [ps EXCEPT ![id].inScene = FALSE, ![id].live = FALSE,
                      ![id].disposed = TRUE]

\* cleanupXR(), also as called by dispose()
XCleanupXR ==
  /\ xpc = "session"
  /\ xstate' = [xstate EXCEPT
       !.planes = XDisposePlane(XDisposePlane(@, xstate.left), xstate.right),
       !.left = 0, !.right = 0,
       !.quad = FALSE, !.isXRInitialized = FALSE, !.viewerSpace = FALSE]
  /\ xpc' = "cleaned"
  /\ UNCHANGED <<rvars, kvars, cvars, pvars, svars, fvars, tvars, hvars, xlog>>

InitXR ==
  /\ RendererIdle /\ KernelIdle /\ BlendIdle /\ PoseIdle /\ StereoIdle
  /\ FnsIdle /\ PlaneIdle /\ HostIdle
  /\ xpc = "session"
  /\ \E viewerSpace \in BOOLEAN, stereo \in BOOLEAN :
       xstate = [planes |-> <<>>, left |-> 0, right |-> 0,
                 isXRInitialized |-> FALSE, quad |-> FALSE,
                 viewerSpace |-> viewerSpace, stereo |-> stereo,
                 co |-> <<>>, quadCalls |-> 0, frames |-> 0]
  /\ xlog = {}

NextXR ==
  \/ XFrame
  \/ XInitializeQuadLayers
  \/ \E c \in 1..Len(xstate.co) : XResume(c)
  \/ XCleanupXR

SpecXR == InitXR /\ [][NextXR]_vars

\* ---------------------------------------------------------------- claims

\* C1: no raycast render pass is issued for a RaycastPlane before that
\* plane's initializeFromProjector has completed (a frame arriving earlier
\* is skipped without rendering the plane).
C1_NoRenderBeforeInit ==
  \A e \in renderLog : e.init = "ready"

\* C2: no frame dereferences a plane that has been set to null or renders a
\* plane that has been disposed; a plane is disposed only when no started
\* frame will still use it.
C2_NoUseAfterDispose ==
  /\ faults = {}
  /\ \A e \in renderLog : ~e.disposed

\* s1 + 0.5 of the kernel's current sample position
KernelUV == << kl.s1[1] + Scale \div 2, kl.s1[2] + Scale \div 2 >>

\* C3: for an accepted sample position s1 whose dilated mask is invalid
\* (some sample of the 3x3 neighbourhood at 1.5 texels has mask alpha below
\* 0.5) the raycast result has alpha 0.
C3_MaskExclusivity ==
  (kpc = "done" /\ Abs(kl.s1[1]) < Scale \div 2 /\ Abs(kl.s1[2]) < Scale \div 2
     /\ kl.invZ2 > 0 /\ isMaskAround(KernelUV, kin.mask, kin.iRes))
  => kout.a = 0

\* C4: the search loop executes its body exactly 40 times before the kernel
\* returns, and never more, whatever depths are sampled.
C4_FortyIterations ==
  /\ kbody <= 40
  /\ kpc = "done" => kbody = 40

\* C4 witness: a kernel that returned after a search whose step had already
\* shrunk to nothing
C4_Witness ==
  kpc = "done" /\ kbody = 40 /\ kl.dinvZ = 0 /\ kin.invZmin # kin.invZmax

\* C5: the kernel returns a sampled result only if |s1.x| < 0.5, |s1.y| < 0.5
\* and the reconstructed inverse depth is positive; in every other case it
\* returns the background colour with alpha 0.
C5_AcceptBounds ==
  kpc = "done" =>
    \/ (Abs(kl.s1[1]) < Scale \div 2 /\ Abs(kl.s1[2]) < Scale \div 2 /\ kl.invZ2 > 0)
    \/ (kout.a = 0 /\ kout.rgb = << kin.background[1], kin.background[2], kin.background[3] >>)

\* C5 witnesses: a rejected sample inside the image (inverse depth not
\* positive), and an accepted one with a visible result
C5_Witness ==
  kpc = "done" /\ Abs(kl.s1[1]) < Scale \div 2 /\ Abs(kl.s1[2]) < Scale \div 2
    /\ kl.invZ2 <= 0 /\ kout.a = 0

\* C6: every loop iteration samples the stored inverse depth at the advanced
\* s1; when the stored value is greater than the advanced candidate and the
\* reconstructed inverse depth is positive the candidate is stepped back and
\* the step halved, otherwise the candidate stays advanced and the step is
\* unchanged.
C6_OvershootRule ==
  [][ (kpc = "loop" /\ kbody' = kbody + 1) =>
        LET cand == kl.invZ - kl.dinvZ
            at   == << kl.s1[1] - kl.ds1[1] + Scale \div 2,
                       kl.s1[2] - kl.ds1[2] + Scale \div 2 >>
            stored == readDisp(kin.depth, at, kin.invZmin, kin.invZmax, kin.iRes)
        IN /\ kl'.disp = stored
           /\ IF stored > cand /\ kl'.invZ2 > 0
              THEN /\ kl'.invZ = cand + kl.dinvZ
                   /\ kl'.dinvZ = Half(kl.dinvZ)
                   /\ kl'.ds1 = << Half(kl.ds1[1]), Half(kl.ds1[2]) >>
                   /\ kl'.s1 = kl.s1
              ELSE /\ kl'.invZ = cand
                   /\ kl'.dinvZ = kl.dinvZ
                   /\ kl'.ds1 = kl.ds1
     ]_vars

\* C6 witness: an iteration that stepped back and halved a non-zero step
C6_Witness ==
  kpc = "loop" /\ kl.i > 0 /\ kl.refined /\ kl.dinvZ > 0 /\ kl.disp > kl.invZ

\* C7: when a denominator of the homography evaluation is zero, or the
\* inverse-depth range is zero, the kernel returns the background (alpha 0).
C7_DegenerateGuard ==
  (kpc = "done" /\ (kin.invZmin = kin.invZmax \/ kl.div0)) => kout.a = 0

\* the zero-range half of C7 on its own, with no zero denominator involved
C7_ZeroRangeOnly ==
  (kpc = "done" /\ kin.invZmin = kin.invZmax /\ ~kl.div0) => kout.a = 0

\* C8: with 2 layers and layer 0 fully opaque (alpha 1) at the pixel, the
\* final composited colour equals layer 0's colour exactly and layer 1 is
\* not composited, whatever the background.
C8_OpaqueFrontOccludes ==
  (cpc = "done" /\ cin.uNumLayers = 2 /\ craw[1].a = Scale)
  => (cres.rgb = craw[1].rgb /\ cvisited = <<1>>)

\* C8 witness: an opaque layer 0 over a layer 1 with a valid mask, blended
\* against an opaque coloured background
C8_Witness ==
  /\ cpc = "done" /\ cin.uNumLayers = 2 /\ craw[1].a = Scale
  /\ cin.layers[2].mask = "valid" /\ cin.background[4] = Scale /\ cin.background[1] > 0

\* the output of main() for the 1-layer LDI made of a layer whose
\* raycasting() result is r
C9_Alone(r) ==
  [rgb |-> [ch \in 1..3 |->
              Mul(Mul(cin.background[ch], cin.background[4]), Scale - r.a)
              + Mul(r.rgb[ch], r.a)],
   a |-> cin.background[4] + Mul(r.a, Scale - cin.background[4])]

\* C9: for a 2-layer LDI whose layer 0 mask is invalid everywhere the
\* composited output equals the output of compositing layer 1 alone.
C9_MaskedFrontIsAbsent ==
  (cpc = "done" /\ cin.uNumLayers = 2 /\ cin.layers[1].mask = "invalid")
  => \E r \in Raycasts(LayerInput(cin, 2)) : cres = C9_Alone(r)

\* C9 witness: layer 0 was hit inside its image and rejected by its mask,
\* and layer 1 is visible
C9_Witness ==
  /\ cpc = "done" /\ cin.uNumLayers = 2 /\ cin.layers[1].mask = "invalid"
  /\ craw[1] = [rgb |-> <<0, 0, 0>>, a |-> 0] /\ cin.background[1] > 0
  /\ Len(craw) = 2 /\ craw[2].a > 0

RECURSIVE C10_Fold(_)
\* the over rule applied front to back to the first k raycast results
C10_Fold(k) ==
  IF k = 1
  THEN [rgb |-> [ch \in 1..3 |-> Mul(craw[1].rgb[ch], craw[1].a)], a |-> craw[1].a]
  ELSE LET acc == C10_Fold(k - 1)
           ly  == craw[k]
       IN [rgb |-> [ch \in 1..3 |->
                      acc.rgb[ch] + Mul(Mul(Scale - acc.a, ly.a), ly.rgb[ch])],
           a |-> ly.a + Mul(acc.a, Scale - ly.a)]

Uploaded(c) == "pos" \in DOMAIN c

\* the rotation M converted between the two handedness conventions, written
\* out per element: F * transpose(M) * F with F = diag(1, 1, -1)
C11_Converted(M) ==
  << << M[1][1],  M[2][1],  -M[3][1] >>,
     << M[1][2],  M[2][2],  -M[3][2] >>,
     << -M[1][3], -M[2][3], M[3][3] >> >>

WorldPosition(proj) == [i \in 1..3 |-> proj.parentPos[i] + proj.pos[i]]

\* the projector's world pose is the camera's world pose
SameWorldPose(proj, cam) ==
  /\ MatrixWorldRotation(proj) = cam.rot
  /\ WorldPosition(proj) = cam.pos

\* C12: when the source view's world pose equals the observer's world pose,
\* the uploaded pose is position (0,0,0) and the identity rotation.
C12_SamePoseIsOrigin ==
  \A slot \in SlotsOf(pviewCount) :
    (Uploaded(pcpu[slot]) /\ SameWorldPose(pprojectors[ProjectorOf(slot)], pcamera)) =>
      /\ puniforms[slot].pos = <<0, 0, 0>>
      /\ puniforms[slot].rot = Identity3

\* the same guarantee restricted to projectors attached to the scene itself
C12_SceneChildOnly ==
  \A slot \in SlotsOf(pviewCount) :
    (/\ Uploaded(pcpu[slot])
     /\ pprojectors[ProjectorOf(slot)].parentPos = <<0, 0, 0>>
     /\ SameWorldPose(pprojectors[ProjectorOf(slot)], pcamera)) =>
      /\ puniforms[slot].pos = <<0, 0, 0>>
      /\ puniforms[slot].rot = Identity3

\* a scene-level projector that shares the camera's pose has been uploaded
C12_SceneChildReached ==
  /\ Uploaded(pcpu["mono"])
  /\ pprojectors[1].parentPos = <<0, 0, 0>>
  /\ SameWorldPose(pprojectors[1], pcamera)

\* the squared norm of the first column of M, in units of 1 / Scale^2
C13_FirstColumnSq(M) == M[1][1] * M[1][1] + M[2][1] * M[2][1] + M[3][1] * M[3][1]

C14_IdentityFallsBack ==
  \A slot \in ViewSlots :
    (/\ pshader[slot].drawn
     /\ ~Uploaded(pshader[slot].cpu)
     /\ pshader[slot].uniforms.rot = Identity3) =>
      LET u == pshader[slot].uniforms
      IN pshader[slot].SKR1 =
           MatMul(MatMul(matFromSkew(u.sk), matFromRoll(u.roll)), matFromSlant(u.sl))

\* C15: before a layer's left and right results are blended, if one view has
\* alpha 0 and the other alpha 1, or the two alphas differ by more than 0.1,
\* both views hold the result with the larger alpha; otherwise both results
\* are as raycasting() returned them.
C15_Reconcile ==
  spc = "blend" =>
    LET l == sin.L
        r == sin.R
        disagree == \/ (l.a = 0 /\ r.a = Scale)
                    \/ (l.a = Scale /\ r.a = 0)
                    \/ Abs(l.a - r.a) > Scale \div 10
        stronger == IF l.a >= r.a THEN l ELSE r
    IN IF disagree THEN sL = stronger /\ sR = stronger
                   ELSE sL = l /\ sR = r

\* C15 witness: the right result is stronger by just over 0.1 and has
\* replaced the left one
C15_Witness ==
  /\ spc = "blend"
  /\ sin.L.a = Scale \div 2
  /\ sin.R.a = Scale \div 2 + Scale \div 10 + 1
  /\ sL = sin.R /\ sR = sin.R

\* the two alphas differ by exactly 0.1 and both results are kept
C15_AtMargin ==
  /\ spc = "blend"
  /\ sin.L.a = Scale \div 2 + Scale \div 10
  /\ sin.R.a = Scale \div 2
  /\ sL = sin.L /\ sR = sin.R

\* C16: the stereo blend weight is 0 when the observer is at C1, 1 when the
\* observer is at C2, and does not decrease from one frame to the next as
\* the observer moves along the axis from C1 to C2.
C16_WeightAlongAxis ==
  \A i \in 1..Len(sout) :
    /\ sout[i].C = sin.C1L => sout[i].wR = 0
    /\ sout[i].C = sin.C1R => sout[i].wR = Scale
    /\ i > 1 => sout[i - 1].wR <= sout[i].wR

\* C16 witness: the observer has passed through both views on the axis and
\* the weight took a value strictly between 0 and 1 on the way
C16_Witness ==
  /\ \E i \in 1..Len(sout) : sout[i].C = sin.C1L
  /\ \E i \in 1..Len(sout) : sout[i].C = sin.C1R
  /\ \E i \in 1..Len(sout) : sout[i].wR > 0 /\ sout[i].wR < Scale
  /\ Len(sout) = AxisSteps + 3

\* C17: for every feathering value that can be set, the taper alpha does not
\* decrease as the sample moves away from the nearest image edge, and is
\* exactly 1.0 wherever the sample is at least the feathering amount away
\* from every edge.
C17_TaperShape ==
  fpc = "taper" =>
    \A i \in 1..Len(fout) :
      /\ EdgeDistance(fout[i].uv) >= fout[i].feathering => fout[i].a = Scale
      /\ i > 1 => fout[i - 1].a <= fout[i].a

\* the same statement for the feathering amounts in (0, 0.5]
C17_PositiveFeathering ==
  fpc = "taper" =>
    \A i \in 1..Len(fout) :
      (fout[i].feathering > 0 /\ 2 * fout[i].feathering <= Scale) =>
        /\ EdgeDistance(fout[i].uv) >= fout[i].feathering => fout[i].a = Scale
        /\ i > 1 => fout[i - 1].a <= fout[i].a

\* a whole walk from the edge to the middle under a band of a quarter
C17_PositiveReached ==
  /\ fpc = "taper"
  /\ Len(fout) = TaperSteps \div 2 + 1
  /\ fout[1].feathering = Scale \div 4
  /\ \E i \in 1..Len(fout) : fout[i].a > 0 /\ fout[i].a < Scale
  /\ fout[Len(fout)].a = Scale

\* C18: decoding a sampled red value r gives invZ = r * (invZmin - invZmax)
\* + invZmax, the raycast kernel exactly and the mesh shader to within one
\* rounding step; r = 0 decodes to invZmax and r = 1 to invZmin in both.
C18_Decode ==
  fpc = "decode" =>
    \A i \in 1..Len(fout) :
      LET o == fout[i]
          expected == TDiv(o.r * (fin.invZmin - fin.invZmax), Scale) + fin.invZmax
      IN /\ o.op = "readDisp" => o.invZ = expected
         /\ o.op = "getDepth" => Abs(o.invZ - expected) <= 1
         /\ o.r = 0 => o.invZ = fin.invZmax
         /\ o.r = Scale => o.invZ = fin.invZmin
         /\ fin.depth = "far" => o.r = 0
         /\ fin.depth = "near" => o.r = Scale

\* C18 witness: both decoders have run on a sample strictly between 0 and 1
\* under a range with distinct ends
C18_Witness ==
  /\ fpc = "decode"
  /\ Recorded("readDisp") /\ Recorded("getDepth")
  /\ fin.invZmin # fin.invZmax
  /\ \A i \in 1..Len(fout) : fout[i].r > 0 /\ fout[i].r < Scale

\* both decoders have run on a sample of 0 and on a sample of 1
C18_EndsReached ==
  /\ fpc = "decode"
  /\ Recorded("readDisp") /\ Recorded("getDepth")
  /\ fin.invZmin # fin.invZmax
  /\ fin.depth \in {"near", "far"}

\* C19: every texture coordinate at which the kernel samples the source
\* layer (depth, mask, colour) lies at least 2 texels from every edge of the
\* source image on both axes; the coordinate of the mask and colour samples
\* of an accepted result is s1 + 0.5.
C19_SamplesClamped ==
  (kpc = "done" /\ Accepted(kl)) =>
    /\ KernelUV = clampedUV(KernelUV, kin.iRes)
    /\ clampedUV(KernelUV, kin.iRes)[1] >= TDiv(2 * Scale, kin.iRes[1])
    /\ clampedUV(KernelUV, kin.iRes)[1] <= Scale - TDiv(2 * Scale, kin.iRes[1])
    /\ clampedUV(KernelUV, kin.iRes)[2] >= TDiv(2 * Scale, kin.iRes[2])
    /\ clampedUV(KernelUV, kin.iRes)[2] <= Scale - TDiv(2 * Scale, kin.iRes[2])

\* the depth sample alone: readDisp's coordinate is within the 2 texel margin
C19_DepthSampleClamped ==
  (kpc = "done" /\ Accepted(kl)) =>
    LET uv == clampedUV(KernelUV, kin.iRes)
    IN /\ uv[1] >= TDiv(2 * Scale, kin.iRes[1]) /\ uv[1] <= Scale - TDiv(2 * Scale, kin.iRes[1])
       /\ uv[2] >= TDiv(2 * Scale, kin.iRes[2]) /\ uv[2] <= Scale - TDiv(2 * Scale, kin.iRes[2])

\* C20: a source view one of whose textures failed to decode is omitted from
\* rendering: no frame renders the initialised plane of that view, and the
\* layer count uploaded to the kernel does not include a failed layer.
C20_FailedViewOmitted ==
  /\ \A e \in renderLog : e.init = "ready" => planes[e.plane].failed = {}
  /\ \A p \in PlaneIds :
       (planes[p].exists /\ planes[p].init = "ready") =>
         \A i \in planes[p].failed : i > planes[p].uNumLayers

\* the texture entries held in a slot of layerTextures
Slotted == {tplane.slots["L"], tplane.slots["R"]} \ {0}

\* C21: every texture the plane created that is no longer in its layer slot
\* has been disposed, and after dispose() no texture the plane created is
\* left undisposed.
C21_TexturesFreed ==
  /\ \A k \in 1..Len(ttex) : k \notin Slotted => ttex[k].disposed
  /\ tplane.disposed => \A k \in 1..Len(ttex) : ttex[k].disposed

\* every texture that is in a slot when dispose() runs is disposed by it
C21_DisposeFreesSlots ==
  [][TDispose => \A k \in 1..Len(ttex) :
                   k \in {tplane.slots["L"], tplane.slots["R"]} => ttex'[k].disposed]_vars

\* C22: loading or reloading a plane leaves the projectors' layer records
\* unchanged, and no texture the plane has disposed is sampled through a
\* layer record by another renderer.
C22_TexturesPrivate ==
  /\ \A j \in 1..2 : tlayer[j] = 0
  /\ \A e \in tlog.mesh : ~e.disposed

C28_ToggleResult ==
  \A r \in tlog.resolved : r.value = r.viewMode

\* a toggleViewMode() call that no other toggle overlapped resolved to the
\* mode in force
C28_AloneReached ==
  /\ \E r \in tlog.resolved : r.value = "stereo" /\ r.viewMode = "stereo"
  /\ \E r \in tlog.resolved : r.value = "mono" /\ r.viewMode = "mono"

\* C29: whenever a frame renders the plane, the fragment shader in use,
\* viewCount, the pose uniforms written in that frame, the static uniforms
\* and the loaded textures belong to the same view mode.
C29_OneViewMode ==
  \A e \in tlog.renders :
    /\ e.shader = (IF e.viewCount = 1 THEN "mono" ELSE "stereo")
    /\ e.posed = (IF e.shader = "mono" THEN {"mono"} ELSE {"L", "R"})
    /\ e.viewCount = 2 => (e.staticFor = 2 /\ e.textures)

C25_OneRenderer ==
  /\ hstate.injected <= 1
  /\ (hstate.renders > 0 /\ ~hstate.offScene /\ ~hstate.manual) => hstate.injected = 1
  /\ (hstate.manual /\ hstate.manualAt = 0) => hstate.injected = 0

\* three projectors rendered in one call, a further call after it
C25_Witness ==
  /\ Len(hstate.mesh) = 3 /\ \A i \in 1..3 : ~hstate.mesh[i]
  /\ hstate.renders = 2 /\ ~hstate.offScene /\ ~hstate.manual
  /\ hstate.injected = 1

\* a renderer added by the application before the first render call
C25_ManualReached ==
  /\ hstate.manual /\ hstate.manualAt = 0 /\ hstate.renders = 2
  /\ Len(hstate.mesh) = 2 /\ ~hstate.mesh[1] /\ ~hstate.mesh[2]

\* C26: isInitialized is false until every texture requested by URL has
\* loaded, and the initialized promise resolves only after isInitialized is
\* true and onLoad, with the promise it may return, has completed.
C26_InitializedLast ==
  /\ hstate.isInitialized =>
       /\ hstate.rgbUrl => "rgb" \in hstate.loaded
       /\ hstate.depthUrl => "depth" \in hstate.loaded
  /\ hstate.initialized = "resolved" =>
       /\ hstate.isInitialized
       /\ hstate.onLoad # "none" => hstate.onLoadState = "done"

\* two URLs and an onLoad that returned a promise, all completed
C26_Witness ==
  /\ hstate.rgbUrl /\ hstate.depthUrl /\ hstate.onLoad = "async"
  /\ hstate.loaded = {"rgb", "depth"}
  /\ hstate.initialized = "resolved"

\* one of two textures loaded: not initialised yet
C26_PartReached ==
  /\ hstate.rgbUrl /\ hstate.depthUrl
  /\ hstate.loaded = {"depth"} /\ hstate.failed = {}
  /\ ~hstate.isInitialized /\ hstate.initialized = "pending"

\* C27: while the per-eye XR planes are being initialised every further
\* frame is skipped, and no per-eye plane is updated or rendered before both
\* are initialised.
C27_FramesWaitForInit ==
  \A e \in xlog :
    /\ e.initRunning => e.skipped
    /\ ~e.unready

\* C27, the part about a second pair: within one session at most one left
\* and one right plane are created
C27_OnePair ==
  \A eye \in {"left", "right"} :
    Cardinality({id \in 1..Len(xstate.planes) : xstate.planes[id].eye = eye}) <= 1

\* initializeXRQuadLayers called while renderXRLegacy's initialisation runs
C27_OnePairReached ==
  /\ \E c \in 1..Len(xstate.co) : xstate.co[c].kind = "legacy"
  /\ \E c \in 1..Len(xstate.co) : xstate.co[c].kind = "quad"
  /\ Len(xstate.planes) = 2

\* C30: after cleanupXR() or dispose() no per-eye plane of the session is
\* attached to the scene, referenced by the renderer, or holds undisposed
\* textures.
C30_NothingLeft ==
  xpc = "cleaned" =>
    /\ xstate.left = 0 /\ xstate.right = 0
    /\ \A id \in 1..Len(xstate.planes) :
         ~xstate.planes[id].inScene /\ ~xstate.planes[id].live

\* C30, the part about the scene: no plane is attached after the cleanup
C30_NotAttached ==
  xpc = "cleaned" => \A id \in 1..Len(xstate.planes) : ~xstate.planes[id].inScene

\* a cleanup that found an attached plane and an initialisation in progress
C30_NotAttachedReached ==
  /\ xpc = "cleaned"
  /\ \E id \in 1..Len(xstate.planes) :
       xstate.planes[id].ready /\ xstate.planes[id].disposed
  /\ \E c \in 1..Len(xstate.co) : xstate.co[c].pc = "failed"

\* initializeXRQuadLayers resumed after the cleanup created a right plane
C30_RecreatedReached ==
  xpc = "cleaned" /\ xstate.right # 0 /\ xstate.planes[xstate.right].live
====
